---- MODULE Spec2Model ----
(***************************************************************************)
(* ADS1263 protocol engine (rust/src/ads1263.rs) over its transport        *)
(* (rust/src/hal.rs).                                                      *)
(*                                                                         *)
(* The program state is the engine's input mode and the levels of the two  *)
(* output lines the transport owns.  Every public operation of the engine  *)
(* is one action; between two calls the caller takes the result.  The body of an operation is written as the source       *)
(* writes it: a chain of transport calls threaded through a call record m, *)
(* in which the `?` operator of the source (return at the first error) is  *)
(* the rule that every step is skipped once m.err is not "ok".             *)
(* What the device and the bus answer (bytes read, a failing transfer, the *)
(* level of the data-ready line) is the environment record m.env, chosen   *)
(* by the action.                                                          *)
(***************************************************************************)
EXTENDS Integers, Naturals, Sequences, FiniteSets, TLC

VARIABLES
    scan_mode,  \* Ads1263.scan_mode: "SingleEnded" | "Differential"
    cs,         \* level of the chip-select line (1 = high = deselected)
    rst,        \* level of the reset line
    alive,      \* FALSE once the transport handle has been dropped
    adc1_cmd,   \* last Start1/Stop1 command transmitted: "none" | "Start1" | "Stop1"
    op,         \* the last operation called, with its arguments: <<name, ...>>
    res,        \* what it returned: [kind, val, e1, e2]
    trace,      \* the transport operations it performed, in order
    diag        \* the log events it emitted, in order

vars == <<scan_mode, cs, rst, alive, adc1_cmd, op, res, trace, diag>>

----------------------------------------------------------------------------
(* Bounds of the model.                                                    *)

\* channel arguments are drawn from 0..MaxChannel and 255 (u8::MAX)
MaxChannel == 12
\* a transport failure is injected at the k-th byte transfer, k in 1..MaxFailAt
MaxFailAt == 30
\* the device answers at most MaxPolls status bytes before the model stops looking
MaxPolls == 2
\* get_all is called with slices of at most MaxScanLen channels
MaxScanLen == 2
\* bytes 0..MaxLowByte (and 0x7F, 0x80, 0xFF) make the values whose checksum is taken
MaxLowByte == 1

----------------------------------------------------------------------------
(* 8-bit and 32-bit arithmetic.                                            *)

RECURSIVE BitAnd(_, _)
BitAnd(a, b) ==
    IF a = 0 \/ b = 0 THEN 0
    ELSE (IF a % 2 = 1 /\ b % 2 = 1 THEN 1 ELSE 0) + 2 * BitAnd(a \div 2, b \div 2)

RECURSIVE BitOr(_, _)
BitOr(a, b) ==
    IF a = 0 THEN b
    ELSE IF b = 0 THEN a
    ELSE (IF a % 2 = 1 \/ b % 2 = 1 THEN 1 ELSE 0) + 2 * BitOr(a \div 2, b \div 2)

RECURSIVE Pow2(_)
Pow2(n) == IF n = 0 THEN 1 ELSE 2 * Pow2(n - 1)

\* x << n on a u8: the bits shifted out of the byte are lost
Shl8(x, n) == (x * Pow2(n)) % 256

\* x >> n
Shr(x, n) == x \div Pow2(n)

\* variant: the byte sum saturates at 0xFF instead of wrapping
WrapAdd8_saturating(x, y) == IF x + y > 255 THEN 255 ELSE x + y

\* x.wrapping_add(y) on a u8
WrapAdd8(x, y) == (x + y) % 256

\* A u32 is kept as its four bytes, most significant first: the value
\* b0 * 2^24 + b1 * 2^16 + b2 * 2^8 + b3 (TLC's integers are narrower).
U32(b0, b1, b2, b3) == <<b0, b1, b2, b3>>

\* v & 0xFF
U32Low8(v) == v[4]

\* v >> 8
U32Shr8(v) == <<0, v[1], v[2], v[3]>>

\* v != 0
U32NonZero(v) == \E i \in 1 .. 4 : v[i] # 0

----------------------------------------------------------------------------
(* registers.rs: register addresses, command codes, configuration enums.   *)

Id      == 0
Mode0   == 3
Mode1   == 4
Mode2   == 5
InpMux  == 6
IdacMux == 13
IdacMag == 14
RefMux  == 15
TdacP   == 16
TdacN   == 17
Adc2Cfg == 21
Adc2Mux == 22

Start1 == 8
Stop1  == 10
Start2 == 12
Stop2  == 14
RData1 == 18
RData2 == 20
RReg   == 32
WReg   == 64

Gain        == 0 .. 6
Gain1       == 0
DataRate    == 0 .. 15
Delay       == 0 .. 11
Delay35us   == 3
Adc2Gain    == 0 .. 7
Adc2Gain1   == 0
Adc2DataRate == 0 .. 3
DacVoltage  == (0 .. 9) \cup (17 .. 25)
InputMode   == {"SingleEnded", "Differential"}
Fir         == 132
AvddAvss    == 36

\* hal.rs: wait_drdy gives up after this many polls
TIMEOUT_ITERATIONS == 4000000

----------------------------------------------------------------------------
(* The call record.  m.cs, m.rst: the output lines.  m.adc1: the last      *)
(* Start1/Stop1 command transmitted.  m.tr: transport operations so far.   *)
(* m.diag: log events so far.  m.err: "ok", or the error the call returns  *)
(* with (m.e1, m.e2 its payload).  m.ret: the value of the last call that  *)
(* returned one.  m.nspi, m.nver, m.nread, m.nwait count the byte          *)
(* transfers, verified writes, frame reads and ready waits begun.          *)
(* m.env: what the bus and the device do during the call:                  *)
(*   failAt  the byte transfer that fails (0: none)                        *)
(*   idb     the byte the device returns for the identity register         *)
(*   rbAt    the verified write whose read-back differs (0: none)          *)
(*   sts     the status bytes the device answers to read-data commands of  *)
(*           one frame read; after them it answers 0x00 (never ready)      *)
(*   frames  the five bytes following the status byte, per frame read      *)
(*   drdys   per ready wait, how many polls see the line high first        *)

Call(env) ==
    [cs |-> cs, rst |-> rst, adc1 |-> adc1_cmd, tr |-> <<>>, diag |-> <<>>,
     err |-> "ok", e1 |-> 0, e2 |-> 0, ret |-> 0,
     nspi |-> 0, nver |-> 0, nread |-> 0, nwait |-> 0, env |-> env]

\* return Err(kind(e1, e2))
Fail(m, kind, e1, e2) ==
    IF m.err # "ok" THEN m ELSE [m EXCEPT !.err = kind, !.e1 = e1, !.e2 = e2]

\* Ok(v)
Ret(m, v) == IF m.err # "ok" THEN m ELSE [m EXCEPT !.ret = v]

\* log::info!, log::warn!, log::error!, log::debug!
Log(m, level, what, about) ==
    IF m.err # "ok" THEN m ELSE [m EXCEPT !.diag = Append(@, <<level, what, about>>)]

\* the k-th element of a sequence the environment gives, repeating it
Cyc(seq, k) == seq[((k - 1) % Len(seq)) + 1]

----------------------------------------------------------------------------
(* hal.rs                                                                  *)

set_rst(m, high) ==
    IF m.err # "ok" THEN m
    ELSE [m EXCEPT !.rst = high, !.tr = Append(@, <<"rst", high>>)]

set_cs(m, high) ==
    IF m.err # "ok" THEN m
    ELSE [m EXCEPT !.cs = high, !.tr = Append(@, <<"cs", high>>)]

\* variant: a failed byte transfer is tried once more
spi_transfer_byte_retry(m, kind, tx, rx) ==
    IF m.err # "ok" THEN m
    ELSE IF m.nspi + 1 = m.env.failAt
         THEN [m EXCEPT !.nspi = @ + 1,
                        !.tr = @ \o << <<"spierr", tx>>,
                                       <<kind, IF kind = "tx" THEN tx ELSE rx>> >>]
         ELSE [m EXCEPT !.nspi = @ + 1,
                        !.tr = Append(@, <<kind, IF kind = "tx" THEN tx ELSE rx>>)]

\* One full-duplex byte transfer; rx is the byte the device shifts out.
\* kind is "tx" when the caller discards rx and "rx" when it sends 0x00.
spi_transfer_byte(m, kind, tx, rx) ==
    IF m.err # "ok" THEN m
    ELSE IF m.nspi + 1 = m.env.failAt
         THEN [m EXCEPT !.nspi = @ + 1, !.err = "Spi",
                        !.tr = Append(@, <<"spierr", tx>>)]
         ELSE [m EXCEPT !.nspi = @ + 1,
                        !.tr = Append(@, <<kind, IF kind = "tx" THEN tx ELSE rx>>)]

spi_write_byte(m, tx) == spi_transfer_byte(m, "tx", tx, 0)

spi_read_byte(m, rx) == spi_transfer_byte(m, "rx", 0, rx)

delay_ms(m, ms) ==
    IF m.err # "ok" THEN m ELSE [m EXCEPT !.tr = Append(@, <<"delay", ms>>)]

\* variant: the loop gives up one poll early
wait_drdy_one_short(m) ==
    IF m.err # "ok" THEN m
    ELSE LET high == Cyc(m.env.drdys, m.nwait + 1)
             m1   == [m EXCEPT !.nwait = @ + 1]
         IN IF high < TIMEOUT_ITERATIONS - 1
            THEN [m1 EXCEPT !.tr = Append(@, <<"drdy", high + 1>>)]
            ELSE Fail(Log([m1 EXCEPT !.tr = Append(@, <<"drdy", TIMEOUT_ITERATIONS - 1>>)],
                          "error", "Timeout waiting for DRDY", ""),
                      "Timeout", 0, 0)

\* for _ in 0..TIMEOUT_ITERATIONS { if !read_drdy() { return Ok } }  Err(Timeout)
\* high: the number of polls that see the line high before one sees it low.
\* The transport event carries the number of polls made.
wait_drdy(m) ==
    IF m.err # "ok" THEN m
    ELSE LET high == Cyc(m.env.drdys, m.nwait + 1)
             m1   == [m EXCEPT !.nwait = @ + 1]
         IN IF high < TIMEOUT_ITERATIONS
            THEN [m1 EXCEPT !.tr = Append(@, <<"drdy", high + 1>>)]
            ELSE Fail(Log([m1 EXCEPT !.tr = Append(@, <<"drdy", TIMEOUT_ITERATIONS>>)],
                          "error", "Timeout waiting for DRDY", ""),
                      "Timeout", 0, 0)

\* Hal::cleanup, run by Drop for Hal
cleanup(m) ==
    [m EXCEPT !.rst = 0, !.cs = 0,
              !.tr = m.tr \o << <<"rst", 0>>, <<"cs", 0>> >>,
              !.diag = Append(@, <<"debug", "HAL cleanup completed", "">>)]

----------------------------------------------------------------------------
(* ads1263.rs: low-level operations                                        *)

reset(m) ==
    IF m.err # "ok" THEN m
    ELSE LET m1 == Log(m, "debug", "Performing hardware reset", "")
             m2 == set_rst(m1, 1)
             m3 == delay_ms(m2, 300)
             m4 == set_rst(m3, 0)
             m5 == delay_ms(m4, 300)
             m6 == set_rst(m5, 1)
         IN delay_ms(m6, 300)

write_cmd(m, cmd) ==
    IF m.err # "ok" THEN m
    ELSE LET m1 == set_cs(m, 0)
             m2 == spi_write_byte(m1, cmd)
             m3 == set_cs(m2, 1)
         IN IF m3.err = "ok" /\ cmd \in {Start1, Stop1}
            THEN [m3 EXCEPT !.adc1 = IF cmd = Start1 THEN "Start1" ELSE "Stop1"]
            ELSE m3

\* variant: the register count byte is left out
write_reg_no_count(m, reg, data) ==
    IF m.err # "ok" THEN m
    ELSE LET m1 == set_cs(m, 0)
             m2 == spi_write_byte(m1, BitOr(WReg, reg))
             m4 == spi_write_byte(m2, data)
         IN set_cs(m4, 1)

write_reg(m, reg, data) ==
    IF m.err # "ok" THEN m
    ELSE LET m1 == set_cs(m, 0)
             m2 == spi_write_byte(m1, BitOr(WReg, reg))
             m3 == spi_write_byte(m2, 0)
             m4 == spi_write_byte(m3, data)
         IN set_cs(m4, 1)

\* variant: the register read is sent with the write opcode
read_reg_write_opcode(m, reg, dev) ==
    IF m.err # "ok" THEN m
    ELSE LET m1 == set_cs(m, 0)
             m2 == spi_write_byte(m1, BitOr(WReg, reg))
             m3 == spi_write_byte(m2, 0)
             m4 == spi_read_byte(m3, dev)
             m5 == set_cs(m4, 1)
         IN Ret(m5, dev)

\* dev: the byte the device returns for the register
read_reg(m, reg, dev) ==
    IF m.err # "ok" THEN m
    ELSE LET m1 == set_cs(m, 0)
             m2 == spi_write_byte(m1, BitOr(RReg, reg))
             m3 == spi_write_byte(m2, 0)
             m4 == spi_read_byte(m3, dev)
             m5 == set_cs(m4, 1)
         IN Ret(m5, dev)

\* the byte the device returns when the register just written is read back
ReadBack(m, data) ==
    IF m.nver + 1 = m.env.rbAt THEN (data + 1) % 256 ELSE data

\* variant: a read-back mismatch is returned as an error
write_reg_verify_strict(m, reg, data, name) ==
    IF m.err # "ok" THEN m
    ELSE LET m1 == write_reg(m, reg, data)
             m2 == delay_ms(m1, 1)
             rb == ReadBack(m2, data)
             m3 == read_reg([m2 EXCEPT !.nver = @ + 1], reg, rb)
         IN IF m3.ret = data
            THEN Ret(Log(m3, "info", "configured successfully", name), 0)
            ELSE Fail(m3, "RegisterVerifyFailed", 0, 0)

write_reg_verify(m, reg, data, name) ==
    IF m.err # "ok" THEN m
    ELSE LET m1 == write_reg(m, reg, data)
             m2 == delay_ms(m1, 1)
             rb == ReadBack(m2, data)
             m3 == read_reg([m2 EXCEPT !.nver = @ + 1], reg, rb)
         IN IF m3.ret = data
            THEN Ret(Log(m3, "info", "configured successfully", name), 0)
            ELSE Ret(Log(m3, "warn", "configuration mismatch", name), 0)

----------------------------------------------------------------------------
(* ads1263.rs: checksum                                                    *)

\* variant: the loop stops at the first zero byte, not at a zero remainder
RECURSIVE checksum_loop_zero_byte(_, _)
checksum_loop_zero_byte(sum, v) ==
    IF U32Low8(v) # 0
    THEN checksum_loop_zero_byte(WrapAdd8(sum, U32Low8(v)), U32Shr8(v))
    ELSE sum

RECURSIVE checksum_loop(_, _)
checksum_loop(sum, v) ==
    IF U32NonZero(v) THEN checksum_loop(WrapAdd8(sum, U32Low8(v)), U32Shr8(v))
    ELSE sum

checksum(val, crc) == WrapAdd8(checksum_loop(0, val), 155) = crc

----------------------------------------------------------------------------
(* ads1263.rs: configuration                                               *)

\* variant: the identity byte is shifted by 4, keeping one revision bit
read_chip_id_shift4(m) ==
    IF m.err # "ok" THEN m
    ELSE LET m1 == read_reg(m, Id, m.env.idb)
         IN Ret(m1, Shr(m1.ret, 4))

read_chip_id(m) ==
    IF m.err # "ok" THEN m
    ELSE LET m1 == read_reg(m, Id, m.env.idb)
         IN Ret(m1, Shr(m1.ret, 5))

\* variant: the gain is shifted by 3, into the top bit of the rate field
config_adc1_gain_shift3(m, gain, drate, delay) ==
    IF m.err # "ok" THEN m
    ELSE LET mode2 == BitOr(BitOr(128, Shl8(gain, 3)), drate)
             m1 == write_reg_verify(m, Mode2, mode2, "REG_MODE2")
             m2 == write_reg_verify(m1, RefMux, AvddAvss, "REG_REFMUX")
             m3 == write_reg_verify(m2, Mode0, delay, "REG_MODE0")
         IN write_reg_verify(m3, Mode1, Fir, "REG_MODE1")

config_adc1(m, gain, drate, delay) ==
    IF m.err # "ok" THEN m
    ELSE LET mode2 == BitOr(BitOr(128, Shl8(gain, 4)), drate)
             m1 == write_reg_verify(m, Mode2, mode2, "REG_MODE2")
             m2 == write_reg_verify(m1, RefMux, AvddAvss, "REG_REFMUX")
             m3 == write_reg_verify(m2, Mode0, delay, "REG_MODE0")
         IN write_reg_verify(m3, Mode1, Fir, "REG_MODE1")

\* the chip id check shared by init_adc1 and init_adc2
check_chip_id(m) ==
    IF m.err # "ok" THEN m
    ELSE IF m.ret = 1
         THEN Log(m, "info", "Chip ID verified", "")
         ELSE Fail(Log(m, "error", "Invalid chip ID", ""), "InvalidChipId", m.ret, 0)

\* variant: the identity is checked without resetting the device first
init_adc1_no_reset(m, rate) ==
    IF m.err # "ok" THEN m
    ELSE LET m2 == read_chip_id(m)
             m3 == check_chip_id(m2)
             m4 == write_cmd(m3, Stop1)
             m5 == config_adc1(m4, Gain1, rate, Delay35us)
             m6 == write_cmd(m5, Start1)
         IN Ret(Log(m6, "info", "ADC1 initialized", ""), 0)

\* variant: conversions are started before the configuration is written
init_adc1_start_first(m, rate) ==
    IF m.err # "ok" THEN m
    ELSE LET m1 == reset(m)
             m2 == read_chip_id(m1)
             m3 == check_chip_id(m2)
             m4 == write_cmd(m3, Stop1)
             m5 == write_cmd(m4, Start1)
             m6 == config_adc1(m5, Gain1, rate, Delay35us)
         IN Ret(Log(m6, "info", "ADC1 initialized", ""), 0)

init_adc1(m, rate) ==
    IF m.err # "ok" THEN m
    ELSE LET m1 == reset(m)
             m2 == read_chip_id(m1)
             m3 == check_chip_id(m2)
             m4 == write_cmd(m3, Stop1)
             m5 == config_adc1(m4, Gain1, rate, Delay35us)
             m6 == write_cmd(m5, Start1)
         IN Ret(Log(m6, "info", "ADC1 initialized", ""), 0)

\* variant: the auxiliary configuration leaves the conversion delay alone
config_adc2_no_delay(m, gain, drate, delay) ==
    IF m.err # "ok" THEN m
    ELSE LET adc2cfg == BitOr(BitOr(32, Shl8(drate, 6)), gain)
         IN write_reg_verify(m, Adc2Cfg, adc2cfg, "REG_ADC2CFG")

\* variant: the rate is shifted by 5, onto the reference bits
config_adc2_rate_shift5(m, gain, drate, delay) ==
    IF m.err # "ok" THEN m
    ELSE LET adc2cfg == BitOr(BitOr(32, Shl8(drate, 5)), gain)
             m1 == write_reg_verify(m, Adc2Cfg, adc2cfg, "REG_ADC2CFG")
         IN write_reg_verify(m1, Mode0, delay, "REG_MODE0")

config_adc2(m, gain, drate, delay) ==
    IF m.err # "ok" THEN m
    ELSE LET adc2cfg == BitOr(BitOr(32, Shl8(drate, 6)), gain)
             m1 == write_reg_verify(m, Adc2Cfg, adc2cfg, "REG_ADC2CFG")
         IN write_reg_verify(m1, Mode0, delay, "REG_MODE0")

init_adc2(m, rate) ==
    IF m.err # "ok" THEN m
    ELSE LET m1 == reset(m)
             m2 == read_chip_id(m1)
             m3 == check_chip_id(m2)
             m4 == write_cmd(m3, Stop2)
             m5 == config_adc2(m4, Adc2Gain1, rate, Delay35us)
         IN Ret(Log(m5, "info", "ADC2 initialized", ""), 0)

----------------------------------------------------------------------------
(* ads1263.rs: channel selection                                           *)

\* variant: the nibbles of the multiplexer byte are swapped
set_channel_swapped(m, channel) ==
    IF channel > 10 THEN Fail(m, "InvalidChannel", channel, 10)
    ELSE write_reg(m, InpMux, BitOr(Shl8(10, 4), channel))

set_channel(m, channel) ==
    IF channel > 10 THEN Fail(m, "InvalidChannel", channel, 10)
    ELSE write_reg(m, InpMux, BitOr(Shl8(channel, 4), 10))

\* variant: pair i is taken as inputs (i, i + 1)
diff_mux_adjacent(channel) ==
    IF channel \in 0 .. 4 THEN BitOr(Shl8(channel, 4), channel + 1) ELSE -1

\* the match of set_diff_channel and set_diff_channel_adc2; -1: no arm but `_`
diff_mux(channel) ==
    CASE channel = 0 -> BitOr(Shl8(0, 4), 1)
      [] channel = 1 -> BitOr(Shl8(2, 4), 3)
      [] channel = 2 -> BitOr(Shl8(4, 4), 5)
      [] channel = 3 -> BitOr(Shl8(6, 4), 7)
      [] channel = 4 -> BitOr(Shl8(8, 4), 9)
      [] OTHER -> -1

\* variant: the inputs of the pair are exchanged (odd input positive)
set_diff_channel_reversed(m, channel) ==
    IF diff_mux(channel) = -1 THEN Fail(m, "InvalidChannel", channel, 4)
    ELSE write_reg(m, InpMux, BitOr(Shl8(2 * channel + 1, 4), 2 * channel))

set_diff_channel(m, channel) ==
    IF diff_mux(channel) = -1 THEN Fail(m, "InvalidChannel", channel, 4)
    ELSE write_reg(m, InpMux, diff_mux(channel))

set_channel_adc2(m, channel) ==
    IF channel > 10 THEN Fail(m, "InvalidChannel", channel, 10)
    ELSE write_reg(m, Adc2Mux, BitOr(Shl8(channel, 4), 10))

set_diff_channel_adc2(m, channel) ==
    IF diff_mux(channel) = -1 THEN Fail(m, "InvalidChannel", channel, 4)
    ELSE write_reg(m, Adc2Mux, diff_mux(channel))

----------------------------------------------------------------------------
(* ads1263.rs: data reading                                                *)

\* variant: the status poll gives up after two status bytes
RECURSIVE poll_status_capped(_, _, _, _)
poll_status_capped(m, cmd, bit, sts) ==
    IF m.err # "ok" THEN m
    ELSE IF sts = <<>> /\ m.env.failAt <= m.nspi THEN Fail(m, "Hang", 0, 0)
    ELSE IF (m.nspi \div 2) >= 2 THEN Fail(m, "Timeout", 0, 0)
    ELSE LET s    == IF sts = <<>> THEN 0 ELSE Head(sts)
             rest == IF sts = <<>> THEN <<>> ELSE Tail(sts)
         IN CHOOSE r \in
              {IF m2.err = "ok" /\ BitAnd(s, bit) = 0
               THEN poll_status_capped(m2, cmd, bit, rest)
               ELSE m2 : m2 \in {spi_read_byte(spi_write_byte(m, cmd), s)}} : TRUE

\* loop { write(cmd)?; s = read()?; if s & bit != 0 { break } }
\* sts: the status bytes the device answers first; after them it answers
\* 0x00 (not ready) for ever.  The loop has no cap: it ends only on a ready
\* status byte or a failed transfer.  When neither is to come (sts used up and
\* no transfer left to fail) the call never returns ("Hang").
RECURSIVE poll_status(_, _, _, _)
poll_status(m, cmd, bit, sts) ==
    IF m.err # "ok" THEN m
    ELSE IF sts = <<>> /\ m.env.failAt <= m.nspi THEN Fail(m, "Hang", 0, 0)
    ELSE LET s    == IF sts = <<>> THEN 0 ELSE Head(sts)
             rest == IF sts = <<>> THEN <<>> ELSE Tail(sts)
         IN CHOOSE r \in
              {IF m2.err = "ok" /\ BitAnd(s, bit) = 0
               THEN poll_status(m2, cmd, bit, rest)
               ELSE m2 : m2 \in {spi_read_byte(spi_write_byte(m, cmd), s)}} : TRUE

\* variant: a checksum mismatch is returned as an error
read_adc1_data_strict(m) ==
    IF m.err # "ok" THEN m
    ELSE LET f  == Cyc(m.env.frames, m.nread + 1)
             m1 == set_cs([m EXCEPT !.nread = @ + 1], 0)
             m2 == poll_status(m1, RData1, 64, m.env.sts)
             m3 == spi_read_byte(m2, f[1])
             m4 == spi_read_byte(m3, f[2])
             m5 == spi_read_byte(m4, f[3])
             m6 == spi_read_byte(m5, f[4])
             m7 == spi_read_byte(m6, f[5])
             m8 == set_cs(m7, 1)
             data == U32(f[1], f[2], f[3], f[4])
         IN IF ~checksum(data, f[5])
            THEN Fail(m8, "ChecksumError", 0, 0)
            ELSE Ret(m8, data)

\* variant: the primary frame read polls the auxiliary ready bit
read_adc1_data_bit7(m) ==
    IF m.err # "ok" THEN m
    ELSE LET f  == Cyc(m.env.frames, m.nread + 1)
             m1 == set_cs([m EXCEPT !.nread = @ + 1], 0)
             m2 == poll_status(m1, RData1, 128, m.env.sts)
             m3 == spi_read_byte(m2, f[1])
             m4 == spi_read_byte(m3, f[2])
             m5 == spi_read_byte(m4, f[3])
             m6 == spi_read_byte(m5, f[4])
             m7 == spi_read_byte(m6, f[5])
             m8 == set_cs(m7, 1)
             data == U32(f[1], f[2], f[3], f[4])
             m9 == IF ~checksum(data, f[5])
                   THEN Log(m8, "warn", "ADC1 checksum error", "")
                   ELSE m8
         IN Ret(m9, data)

read_adc1_data(m) ==
    IF m.err # "ok" THEN m
    ELSE LET f  == Cyc(m.env.frames, m.nread + 1)
             m1 == set_cs([m EXCEPT !.nread = @ + 1], 0)
             m2 == poll_status(m1, RData1, 64, m.env.sts)
             m3 == spi_read_byte(m2, f[1])
             m4 == spi_read_byte(m3, f[2])
             m5 == spi_read_byte(m4, f[3])
             m6 == spi_read_byte(m5, f[4])
             m7 == spi_read_byte(m6, f[5])
             m8 == set_cs(m7, 1)
             data == U32(f[1], f[2], f[3], f[4])
             m9 == IF ~checksum(data, f[5])
                   THEN Log(m8, "warn", "ADC1 checksum error", "")
                   ELSE m8
         IN Ret(m9, data)

\* variant: the fourth byte is taken as data, as in the primary frame
read_adc2_data_four_bytes(m) ==
    IF m.err # "ok" THEN m
    ELSE LET f  == Cyc(m.env.frames, m.nread + 1)
             m1 == set_cs([m EXCEPT !.nread = @ + 1], 0)
             m2 == poll_status(m1, RData2, 128, m.env.sts)
             m3 == spi_read_byte(m2, f[1])
             m4 == spi_read_byte(m3, f[2])
             m5 == spi_read_byte(m4, f[3])
             m6 == spi_read_byte(m5, f[4])
             m7 == spi_read_byte(m6, f[5])
             m8 == set_cs(m7, 1)
             data == U32(f[1], f[2], f[3], f[4])
             m9 == IF ~checksum(data, f[5])
                   THEN Log(m8, "warn", "ADC2 checksum error", "")
                   ELSE m8
         IN Ret(m9, data)

read_adc2_data(m) ==
    IF m.err # "ok" THEN m
    ELSE LET f  == Cyc(m.env.frames, m.nread + 1)
             m1 == set_cs([m EXCEPT !.nread = @ + 1], 0)
             m2 == poll_status(m1, RData2, 128, m.env.sts)
             m3 == spi_read_byte(m2, f[1])
             m4 == spi_read_byte(m3, f[2])
             m5 == spi_read_byte(m4, f[3])
             m6 == spi_read_byte(m5, f[4])
             m7 == spi_read_byte(m6, f[5])
             m8 == set_cs(m7, 1)
             data == U32(0, f[1], f[2], f[3])
             m9 == IF ~checksum(data, f[5])
                   THEN Log(m8, "warn", "ADC2 checksum error", "")
                   ELSE m8
         IN Ret(m9, data)

----------------------------------------------------------------------------
(* ads1263.rs: public data acquisition                                     *)

\* variant: the data-ready wait comes before the multiplexer write
get_channel_value_wait_first(m, mode, channel) ==
    IF m.err # "ok" THEN m
    ELSE LET m0 == IF mode = "SingleEnded"
                   THEN IF channel > 10 THEN Fail(m, "InvalidChannel", channel, 10)
                        ELSE wait_drdy(m)
                   ELSE IF channel > 4 THEN Fail(m, "InvalidChannel", channel, 4)
                        ELSE wait_drdy(m)
             m1 == IF mode = "SingleEnded" THEN set_channel(m0, channel)
                   ELSE set_diff_channel(m0, channel)
         IN read_adc1_data(IF m0.err # "ok" THEN m0 ELSE m1)

get_channel_value(m, mode, channel) ==
    IF m.err # "ok" THEN m
    ELSE LET m1 == IF mode = "SingleEnded"
                   THEN IF channel > 10 THEN Fail(m, "InvalidChannel", channel, 10)
                        ELSE set_channel(m, channel)
                   ELSE IF channel > 4 THEN Fail(m, "InvalidChannel", channel, 4)
                        ELSE set_diff_channel(m, channel)
             m2 == wait_drdy(m1)
         IN read_adc1_data(m2)

\* variant: the auxiliary read waits on the data-ready line, as the primary does
get_channel_value_adc2_waits(m, mode, channel) ==
    IF m.err # "ok" THEN m
    ELSE LET m1 == IF mode = "SingleEnded"
                   THEN IF channel > 10 THEN Fail(m, "InvalidChannel", channel, 10)
                        ELSE set_channel_adc2(m, channel)
                   ELSE IF channel > 4 THEN Fail(m, "InvalidChannel", channel, 4)
                        ELSE set_diff_channel_adc2(m, channel)
             m2 == write_cmd(m1, Start2)
             m3 == wait_drdy(m2)
         IN read_adc2_data(m3)

\* variant: the conversion is started before the channel is validated
get_channel_value_adc2_start_first(m, mode, channel) ==
    IF m.err # "ok" THEN m
    ELSE LET m0 == write_cmd(m, Start2)
             m1 == IF m0.err # "ok" THEN m0
                   ELSE IF mode = "SingleEnded"
                   THEN IF channel > 10 THEN Fail(m0, "InvalidChannel", channel, 10)
                        ELSE set_channel_adc2(m0, channel)
                   ELSE IF channel > 4 THEN Fail(m0, "InvalidChannel", channel, 4)
                        ELSE set_diff_channel_adc2(m0, channel)
         IN read_adc2_data(m1)

get_channel_value_adc2(m, mode, channel) ==
    IF m.err # "ok" THEN m
    ELSE LET m1 == IF mode = "SingleEnded"
                   THEN IF channel > 10 THEN Fail(m, "InvalidChannel", channel, 10)
                        ELSE set_channel_adc2(m, channel)
                   ELSE IF channel > 4 THEN Fail(m, "InvalidChannel", channel, 4)
                        ELSE set_diff_channel_adc2(m, channel)
             m2 == write_cmd(m1, Start2)
         IN read_adc2_data(m2)

\* for &ch in channels { values.push(get_channel_value(ch)?) }
RECURSIVE get_all_loop(_, _, _, _)
get_all_loop(m, mode, channels, values) ==
    IF m.err # "ok" THEN m
    ELSE IF channels = <<>> THEN Ret(m, values)
    ELSE LET m1 == get_channel_value(m, mode, Head(channels))
         IN get_all_loop(m1, mode, Tail(channels), Append(values, m1.ret))

\* variant: the slice is scanned from its last element to its first
get_all_backwards(m, mode, channels) ==
    get_all_loop(m, mode, [i \in 1 .. Len(channels) |-> channels[Len(channels) + 1 - i]], <<>>)

get_all(m, mode, channels) == get_all_loop(m, mode, channels, <<>>)

\* for i in 0..10 { values[i] = get_channel_value_adc2(i)?; write_cmd(Stop2)? }
RECURSIVE get_all_adc2_loop(_, _, _, _)
get_all_adc2_loop(m, mode, i, values) ==
    IF m.err # "ok" THEN m
    ELSE IF i = 10 THEN Ret(m, values)
    ELSE LET m1 == get_channel_value_adc2(m, mode, i)
             m2 == write_cmd(m1, Stop2)
         IN get_all_adc2_loop(m2, mode, i + 1, [values EXCEPT ![i + 1] = m1.ret])

get_all_adc2(m, mode) ==
    get_all_adc2_loop(m, mode, 0, [i \in 1 .. 10 |-> U32(0, 0, 0, 0)])

----------------------------------------------------------------------------
(* ads1263.rs: RTD, DAC, start and stop                                    *)

\* variant: the conversion is left running after the frame read
read_rtd_no_stop(m, delay, gain, drate) ==
    IF m.err # "ok" THEN m
    ELSE LET m1  == delay_ms(write_reg(m, Mode0, delay), 1)
             m2  == delay_ms(write_reg(m1, IdacMux, BitOr(Shl8(10, 4), 3)), 1)
             m3  == delay_ms(write_reg(m2, IdacMag, BitOr(Shl8(3, 4), 3)), 1)
             m4  == delay_ms(write_reg(m3, Mode2, BitOr(Shl8(gain, 4), drate)), 1)
             m5  == delay_ms(write_reg(m4, InpMux, BitOr(Shl8(7, 4), 6)), 1)
             m6  == delay_ms(write_reg(m5, RefMux, BitOr(Shl8(3, 3), 3)), 1)
             m7  == write_cmd(m6, Start1)
             m8  == delay_ms(m7, 10)
             m9  == wait_drdy(m8)
             m10 == read_adc1_data(m9)
         IN Ret(m10, m10.ret)

\* variant: the conversion is started before the reference is selected
read_rtd_start_early(m, delay, gain, drate) ==
    IF m.err # "ok" THEN m
    ELSE LET m1  == delay_ms(write_reg(m, Mode0, delay), 1)
             m2  == delay_ms(write_reg(m1, IdacMux, BitOr(Shl8(10, 4), 3)), 1)
             m3  == delay_ms(write_reg(m2, IdacMag, BitOr(Shl8(3, 4), 3)), 1)
             m4  == delay_ms(write_reg(m3, Mode2, BitOr(Shl8(gain, 4), drate)), 1)
             m5  == delay_ms(write_reg(m4, InpMux, BitOr(Shl8(7, 4), 6)), 1)
             m6  == write_cmd(m5, Start1)
             m7  == delay_ms(write_reg(m6, RefMux, BitOr(Shl8(3, 3), 3)), 1)
             m8  == delay_ms(m7, 10)
             m9  == wait_drdy(m8)
             m10 == read_adc1_data(m9)
             m11 == write_cmd(m10, Stop1)
         IN Ret(m11, m10.ret)

read_rtd(m, delay, gain, drate) ==
    IF m.err # "ok" THEN m
    ELSE LET m1  == delay_ms(write_reg(m, Mode0, delay), 1)
             m2  == delay_ms(write_reg(m1, IdacMux, BitOr(Shl8(10, 4), 3)), 1)
             m3  == delay_ms(write_reg(m2, IdacMag, BitOr(Shl8(3, 4), 3)), 1)
             m4  == delay_ms(write_reg(m3, Mode2, BitOr(Shl8(gain, 4), drate)), 1)
             m5  == delay_ms(write_reg(m4, InpMux, BitOr(Shl8(7, 4), 6)), 1)
             m6  == delay_ms(write_reg(m5, RefMux, BitOr(Shl8(3, 3), 3)), 1)
             m7  == write_cmd(m6, Start1)
             m8  == delay_ms(m7, 10)
             m9  == wait_drdy(m8)
             m10 == read_adc1_data(m9)
             m11 == write_cmd(m10, Stop1)
         IN Ret(m11, m10.ret)

\* variant: the enable bit is 0x10, the top bit of the level code
set_dac_enable_bit4(m, voltage, positive, enable) ==
    IF m.err # "ok" THEN m
    ELSE LET reg   == IF positive THEN TdacP ELSE TdacN
             value == IF enable THEN BitOr(voltage, 16) ELSE 0
             m1    == write_reg(m, reg, value)
         IN Ret(Log(m1, "debug", "DAC", ""), 0)

set_dac(m, voltage, positive, enable) ==
    IF m.err # "ok" THEN m
    ELSE LET reg   == IF positive THEN TdacP ELSE TdacN
             value == IF enable THEN BitOr(voltage, 128) ELSE 0
             m1    == write_reg(m, reg, value)
         IN Ret(Log(m1, "debug", "DAC", ""), 0)

stop_adc1(m) == Ret(write_cmd(m, Stop1), 0)

stop_adc2(m) == Ret(write_cmd(m, Stop2), 0)

start_adc1(m) == Ret(write_cmd(m, Start1), 0)

start_adc2(m) == Ret(write_cmd(m, Start2), 0)

----------------------------------------------------------------------------
(* What the bus and the device may do during one call.                     *)

Min(a, b) == IF a < b THEN a ELSE b

SeqsUpTo(S, n) == UNION {[1 .. k -> S] : k \in 1 .. n}

Env(failAt, idb, rbAt, sts, frames, drdys) ==
    [failAt |-> failAt, idb |-> idb, rbAt |-> rbAt,
     sts |-> sts, frames |-> frames, drdys |-> drdys]

\* frames: four data bytes (three and a padding byte for ADC2), then the checksum
Frames ==
    { <<0, 0, 0, 0, 155>>,          \* primary: checksum matches
      <<18, 52, 86, 120, 175>>,     \* primary: matches; auxiliary: does not
      <<1, 2, 3, 85, 161>>,         \* auxiliary: matches; primary: does not
      <<128, 0, 0, 1, 0>>,          \* sign bit set, checksum wrong for both
      <<255, 255, 255, 255, 151>> }

\* status bytes: bit 6 is the primary ready bit, bit 7 the auxiliary one
StatusBytes == {0, 64, 128, 192}

\* identity register bytes: the part number is the top three bits
IdBytes == {32, 35, 0, 64, 255}

\* polls that see the data-ready line high before one sees it low
DrdyChoices == {0, 1, TIMEOUT_ITERATIONS - 1, TIMEOUT_ITERATIONS}

\* the device is the expected part, echoes every register, is ready at the
\* second status byte and at the first poll of the data-ready line
EnvOk == Env(0, 32, 0, <<0, 192>>, << <<18, 52, 86, 120, 175>> >>, <<0>>)

\* the n-th byte transfer of the call fails, for the transfers a call can make
EnvFail(n) == {[EnvOk EXCEPT !.failAt = k] : k \in 1 .. Min(n, MaxFailAt)}

\* the device is never ready and the n-th byte transfer of the call fails
EnvStuck(n) ==
    {[EnvOk EXCEPT !.sts = <<0>>, !.failAt = k] : k \in 1 .. Min(n, MaxFailAt)}

EnvInit(n) ==
    {[EnvOk EXCEPT !.idb = b] : b \in IdBytes}
    \cup {[EnvOk EXCEPT !.rbAt = k] : k \in 1 .. 4}
    \cup EnvFail(n)

EnvRead(n) ==
    {[EnvOk EXCEPT !.sts = s] : s \in SeqsUpTo(StatusBytes, MaxPolls)}
    \cup {[EnvOk EXCEPT !.frames = <<f>>] : f \in Frames}
    \cup {[EnvOk EXCEPT !.drdys = <<d>>] : d \in DrdyChoices}
    \cup EnvFail(n)
    \cup EnvStuck(n)

EnvScan(n) ==
    {[EnvOk EXCEPT !.frames = fs] : fs \in [1 .. 2 -> Frames]}
    \cup {[EnvOk EXCEPT !.drdys = ds] : ds \in [1 .. 2 -> {0, TIMEOUT_ITERATIONS}]}
    \cup {[EnvOk EXCEPT !.sts = s] : s \in {<<64>>, <<128>>, <<0>>}}
    \cup EnvFail(n)
    \cup EnvStuck(n)

\* channel arguments (u8)
Channels == (0 .. MaxChannel) \cup {255}

\* slices given to get_all
ScanChannels == {0, 5, 11}
Scans == {<<>>} \cup SeqsUpTo(ScanChannels, MaxScanLen)

\* data rates, gains and delays given to the public operations
RtdChoices      == {<<3, 0, 8>>, <<0, 3, 0>>, <<11, 6, 15>>}

----------------------------------------------------------------------------
(* The operations of the engine, one action each.                          *)

Result(m) ==
    IF m.err = "ok" THEN [kind |-> "Ok", val |-> m.ret, e1 |-> 0, e2 |-> 0]
    ELSE [kind |-> m.err, val |-> 0, e1 |-> m.e1, e2 |-> m.e2]

\* the call returns (or, for "Hang", never does): what it leaves behind
Return(call, m) ==
    /\ op' = call
    /\ res' = Result(m)
    /\ trace' = m.tr
    /\ diag' = m.diag
    /\ cs' = m.cs
    /\ rst' = m.rst
    /\ adc1_cmd' = m.adc1

\* The caller is between two calls: the engine exists, the last call has
\* returned and the caller has taken its result.
Usable == alive /\ op[1] \in {"new", "idle"}

\* Ads1263::new(hal) takes the lines and the device as the caller left them:
\* Hal is public, and set_cs, set_rst, cleanup and the byte transfers (which
\* can carry a Start1 or Stop1 command) can be called on it before it is
\* handed over.
Init ==
    /\ scan_mode = "SingleEnded"
    /\ cs \in {0, 1}
    /\ rst \in {0, 1}
    /\ alive = TRUE
    /\ adc1_cmd \in {"none", "Start1", "Stop1"}
    /\ op = <<"new">>
    /\ res = [kind |-> "Ok", val |-> 0, e1 |-> 0, e2 |-> 0]
    /\ trace = <<>>
    /\ diag = <<>>

SetMode ==
    /\ Usable
    /\ \E mode \in InputMode :
        /\ scan_mode' = mode
        /\ Return(<<"set_mode", mode>>, Log(Call(EnvOk), "info", "Input mode set", ""))
    /\ UNCHANGED alive

GetMode ==
    /\ Usable
    /\ Return(<<"get_mode">>, Ret(Call(EnvOk), scan_mode))
    /\ UNCHANGED <<scan_mode, alive>>

ReadChipId ==
    /\ Usable
    /\ \E env \in EnvInit(3) : Return(<<"read_chip_id", env>>, read_chip_id(Call(env)))
    /\ UNCHANGED <<scan_mode, alive>>

\* variant: initialization puts the input mode back to SingleEnded
InitAdc1_resets_mode ==
    /\ Usable
    /\ \E rate \in DataRate, env \in EnvInit(29) :
        Return(<<"init_adc1", rate, env>>, init_adc1(Call(env), rate))
    /\ scan_mode' = "SingleEnded"
    /\ UNCHANGED alive

InitAdc1 ==
    /\ Usable
    /\ \E rate \in DataRate, env \in EnvInit(29) :
        Return(<<"init_adc1", rate, env>>, init_adc1(Call(env), rate))
    /\ UNCHANGED <<scan_mode, alive>>

InitAdc2 ==
    /\ Usable
    /\ \E rate \in Adc2DataRate, env \in EnvInit(16) :
        Return(<<"init_adc2", rate, env>>, init_adc2(Call(env), rate))
    /\ UNCHANGED <<scan_mode, alive>>

GetChannelValue ==
    /\ Usable
    /\ \E channel \in Channels, env \in EnvRead(8 + 2 * MaxPolls) :
        Return(<<"get_channel_value", channel, env>>,
               get_channel_value(Call(env), scan_mode, channel))
    /\ UNCHANGED <<scan_mode, alive>>

GetChannelValueAdc2 ==
    /\ Usable
    /\ \E channel \in Channels, env \in EnvRead(9 + 2 * MaxPolls) :
        Return(<<"get_channel_value_adc2", channel, env>>,
               get_channel_value_adc2(Call(env), scan_mode, channel))
    /\ UNCHANGED <<scan_mode, alive>>

GetAll ==
    /\ Usable
    /\ \E channels \in Scans, env \in EnvScan(MaxScanLen * (8 + 2 * MaxPolls)) :
        Return(<<"get_all", channels, env>>, get_all(Call(env), scan_mode, channels))
    /\ UNCHANGED <<scan_mode, alive>>

GetAllAdc2 ==
    /\ Usable
    /\ \E env \in EnvScan(10 * (10 + 2 * MaxPolls)) :
        Return(<<"get_all_adc2", env>>, get_all_adc2(Call(env), scan_mode))
    /\ UNCHANGED <<scan_mode, alive>>

ReadRtd ==
    /\ Usable
    /\ \E a \in RtdChoices, env \in EnvRead(25 + 2 * MaxPolls) :
        Return(<<"read_rtd", a, env>>, read_rtd(Call(env), a[1], a[2], a[3]))
    /\ UNCHANGED <<scan_mode, alive>>

SetDac ==
    /\ Usable
    /\ \E voltage \in DacVoltage, positive \in BOOLEAN, enable \in BOOLEAN,
          env \in {EnvOk} \cup EnvFail(3) :
        Return(<<"set_dac", voltage, positive, enable, env>>,
               set_dac(Call(env), voltage, positive, enable))
    /\ UNCHANGED <<scan_mode, alive>>

StartStop ==
    /\ Usable
    /\ \E env \in {EnvOk} \cup EnvFail(1) :
        \/ Return(<<"start_adc1", env>>, start_adc1(Call(env)))
        \/ Return(<<"stop_adc1", env>>, stop_adc1(Call(env)))
        \/ Return(<<"start_adc2", env>>, start_adc2(Call(env)))
        \/ Return(<<"stop_adc2", env>>, stop_adc2(Call(env)))
    /\ UNCHANGED <<scan_mode, alive>>

\* the engine, and with it the transport handle, goes out of scope
Drop ==
    /\ Usable
    /\ alive' = FALSE
    /\ Return(<<"drop">>, cleanup(Call(EnvOk)))
    /\ UNCHANGED scan_mode

\* The caller takes the result of the call that returned.  A call that never
\* returns ("Hang") leaves its caller blocked, and a dropped engine has none.
TakeResult ==
    /\ alive
    /\ op[1] \notin {"new", "idle"}
    /\ res.kind # "Hang"
    /\ op' = <<"idle">>
    /\ res' = [kind |-> "Ok", val |-> 0, e1 |-> 0, e2 |-> 0]
    /\ trace' = <<>>
    /\ diag' = <<>>
    /\ UNCHANGED <<scan_mode, cs, rst, alive, adc1_cmd>>

Next ==
    \/ TakeResult
    \/ SetMode
    \/ GetMode
    \/ ReadChipId
    \/ InitAdc1
    \/ InitAdc2
    \/ GetChannelValue
    \/ GetChannelValueAdc2
    \/ GetAll
    \/ GetAllAdc2
    \/ ReadRtd
    \/ SetDac
    \/ StartStop
    \/ Drop

Spec == Init /\ [][Next]_vars

----------------------------------------------------------------------------
(* The private register write, called on its own with every register       *)
(* address and a choice of data bytes.                                     *)

Registers == 0 .. 26

DataBytes == {0, 1, 10, 36, 64, 127, 128, 170, 255}

WriteReg ==
    /\ Usable
    /\ \E reg \in Registers, data \in DataBytes, env \in {EnvOk} \cup EnvFail(3) :
        Return(<<"write_reg", reg, data, env>>, write_reg(Call(env), reg, data))
    /\ UNCHANGED <<scan_mode, alive>>

ReadReg ==
    /\ Usable
    /\ \E reg \in Registers, dev \in DataBytes, env \in {EnvOk} \cup EnvFail(3) :
        Return(<<"read_reg", reg, dev, env>>, read_reg(Call(env), reg, dev))
    /\ UNCHANGED <<scan_mode, alive>>

\* the device echoes the byte written, or (rbAt = 1) answers another one
WriteRegVerify ==
    /\ Usable
    /\ \E reg \in Registers, data \in DataBytes,
          env \in {EnvOk, [EnvOk EXCEPT !.rbAt = 1]} \cup EnvFail(6) :
        Return(<<"write_reg_verify", reg, data, env>>,
               write_reg_verify(Call(env), reg, data, "REG"))
    /\ UNCHANGED <<scan_mode, alive>>

NextUnit ==
    \/ TakeResult
    \/ WriteReg
    \/ ReadReg
    \/ WriteRegVerify

SpecUnit == Init /\ [][NextUnit]_vars

----------------------------------------------------------------------------
(* The private configuration functions, called on their own with every     *)
(* gain, data rate and delay.                                              *)

\* the device echoes, or answers one verified write with another byte, or the
\* bus fails during the first two register transactions
EnvConfig(writes) ==
    {EnvOk} \cup {[EnvOk EXCEPT !.rbAt = k] : k \in 1 .. writes} \cup EnvFail(7)

ConfigAdc1 ==
    /\ Usable
    /\ \E gain \in Gain, drate \in DataRate, delay \in Delay, env \in EnvConfig(4) :
        Return(<<"config_adc1", gain, drate, delay, env>>,
               Ret(config_adc1(Call(env), gain, drate, delay), 0))
    /\ UNCHANGED <<scan_mode, alive>>

ConfigAdc2 ==
    /\ Usable
    /\ \E gain \in Adc2Gain, drate \in Adc2DataRate, delay \in Delay, env \in EnvConfig(2) :
        Return(<<"config_adc2", gain, drate, delay, env>>,
               Ret(config_adc2(Call(env), gain, drate, delay), 0))
    /\ UNCHANGED <<scan_mode, alive>>

NextConfig ==
    \/ TakeResult
    \/ ConfigAdc1
    \/ ConfigAdc2

SpecConfig == Init /\ [][NextConfig]_vars

----------------------------------------------------------------------------
(* The private frame reads, called on their own.                           *)

\* frames of the bytes 0x00, 0x9B, 0xFF in every position, and those above
UnitFrames == Frames \cup [1 .. 5 -> {0, 155, 255}]

EnvFrame ==
    {[EnvOk EXCEPT !.sts = st] : st \in SeqsUpTo(StatusBytes, MaxPolls + 1)}
    \cup {[EnvOk EXCEPT !.frames = <<f>>] : f \in UnitFrames}
    \cup EnvFail(9)
    \cup EnvStuck(9)

ReadAdc1Data ==
    /\ Usable
    /\ \E env \in EnvFrame :
        Return(<<"read_adc1_data", env>>, read_adc1_data(Call(env)))
    /\ UNCHANGED <<scan_mode, alive>>

ReadAdc2Data ==
    /\ Usable
    /\ \E env \in EnvFrame :
        Return(<<"read_adc2_data", env>>, read_adc2_data(Call(env)))
    /\ UNCHANGED <<scan_mode, alive>>

NextFrame ==
    \/ TakeResult
    \/ ReadAdc1Data
    \/ ReadAdc2Data

SpecFrame == Init /\ [][NextFrame]_vars

----------------------------------------------------------------------------
(* The checksum function, called on its own.                               *)

ByteChoices == (0 .. MaxLowByte) \cup {128, 255}

ChecksumVals == {U32(b[1], b[2], b[3], b[4]) : b \in [1 .. 4 -> ByteChoices]}

\* val with bit k (0: least significant) flipped
FlipBit(val, k) ==
    LET i   == 4 - (k \div 8)
        bit == Pow2(k % 8)
    IN [val EXCEPT ![i] = IF BitAnd(@, bit) # 0 THEN @ - bit ELSE @ + bit]

InitChecksum ==
    /\ scan_mode = "SingleEnded"
    /\ cs = 1
    /\ rst = 1
    /\ alive = TRUE
    /\ adc1_cmd = "none"
    /\ op \in {<<"checksum_args", val, crc>> : val \in ChecksumVals, crc \in 0 .. 255}
    /\ res = [kind |-> "Ok", val |-> 0, e1 |-> 0, e2 |-> 0]
    /\ trace = <<>>
    /\ diag = <<>>

\* checksum(val, crc)
ChecksumCall ==
    /\ op[1] = "checksum_args"
    /\ op' = <<"checksum", op[2], op[3]>>
    /\ res' = [res EXCEPT !.val = checksum(op[2], op[3])]
    /\ UNCHANGED <<scan_mode, cs, rst, alive, adc1_cmd, trace, diag>>

\* after a check that succeeded: one bit of val flips, crc stays, check again
ChecksumFlipped ==
    /\ op[1] = "checksum"
    /\ res.val = TRUE
    /\ \E k \in 0 .. 31 :
        /\ op' = <<"checksum_flipped", FlipBit(op[2], k), op[3], k>>
        /\ res' = [res EXCEPT !.val = checksum(FlipBit(op[2], k), op[3])]
    /\ UNCHANGED <<scan_mode, cs, rst, alive, adc1_cmd, trace, diag>>

NextChecksum ==
    \/ ChecksumCall
    \/ ChecksumFlipped

SpecChecksum == InitChecksum /\ [][NextChecksum]_vars

----------------------------------------------------------------------------
(* Reading a trace: the transactions the claims speak of, written with the *)
(* bytes of the data sheet rather than with the engine's own encoders.     *)

XReset ==
    << <<"rst", 1>>, <<"delay", 300>>, <<"rst", 0>>, <<"delay", 300>>,
       <<"rst", 1>>, <<"delay", 300>> >>

XCmd(c) == << <<"cs", 0>>, <<"tx", c>>, <<"cs", 1>> >>

XWrite(reg, data) ==
    << <<"cs", 0>>, <<"tx", 64 + reg>>, <<"tx", 0>>, <<"tx", data>>, <<"cs", 1>> >>

XRead(reg, byte) ==
    << <<"cs", 0>>, <<"tx", 32 + reg>>, <<"tx", 0>>, <<"rx", byte>>, <<"cs", 1>> >>

XVerify(reg, data, back) == XWrite(reg, data) \o << <<"delay", 1>> >> \o XRead(reg, back)

\* tr holds transaction x at position i
HasAt(tr, i, x) == i + Len(x) - 1 <= Len(tr) /\ SubSeq(tr, i, i + Len(x) - 1) = x

\* the positions at which tr transmits a complete command: select, one byte, deselect
CmdPositions(tr) ==
    {i \in 1 .. Len(tr) - 2 :
        tr[i] = <<"cs", 0>> /\ tr[i + 1][1] = "tx" /\ tr[i + 2] = <<"cs", 1>>}

\* the positions at which tr transmits a register write, the data byte
\* included: select, 0x40 | register, 0x00, data
WritePositions(tr) ==
    {i \in 1 .. Len(tr) - 3 :
        /\ tr[i] = <<"cs", 0>>
        /\ tr[i + 1][1] = "tx" /\ tr[i + 1][2] - 64 \in Registers
        /\ tr[i + 2] = <<"tx", 0>>
        /\ tr[i + 3][1] = "tx"}

\* the <<register, data>> pairs tr writes
Writes(tr) == {<<tr[i + 1][2] - 64, tr[i + 3][2]>> : i \in WritePositions(tr)}

\* the commands tr transmits
Cmds(tr) == {tr[i + 1][2] : i \in CmdPositions(tr)}

Acquisition == op[1] \in {"get_channel_value", "get_channel_value_adc2"}

\* the multiplexer register of the converter the acquisition reads
MuxReg == IF op[1] = "get_channel_value" THEN 6 ELSE 22

\* the acquisition got as far as the data byte of its multiplexer write
MuxWritten == res.kind \in {"Ok", "Timeout", "Hang"} \/ (res.kind = "Spi" /\ op[3].failAt > 3)

----------------------------------------------------------------------------
(* Claims.                                                                 *)

\* C1: checksum(val, crc) is true exactly when (b0 + b1 + b2 + b3 + 0x9B) mod 256
\* = crc for the four bytes of val: the loop that stops when the remaining
\* shifted value is 0 gives the same result as the sum of all four bytes.
C1_ChecksumIsByteSum ==
    op[1] \in {"checksum", "checksum_flipped"} =>
        (res.val <=> ((op[2][1] + op[2][2] + op[2][3] + op[2][4] + 155) % 256 = op[3]))

\* the check succeeds on a value whose top byte is zero (the loop stops after
\* three bytes) and whose bytes wrap the 8-bit sum
C1_Witness ==
    /\ op[1] = "checksum"
    /\ res.val = TRUE
    /\ op[2][1] = 0 /\ op[2][2] = 255 /\ op[2][3] = 0 /\ op[2][4] = 255

\* C2: checksum(0, 0x9B) succeeds, and whenever checksum(val, crc) succeeds,
\* checksum(val with any one bit k in 0..31 flipped, crc) fails.
C2_SingleBitFlipFails ==
    /\ (op[1] = "checksum" /\ op[2] = <<0, 0, 0, 0>> /\ op[3] = 155) => res.val = TRUE
    /\ op[1] = "checksum_flipped" => res.val = FALSE

\* bit 31 of a value that checked flips, and the check now fails
C2_Witness ==
    /\ op[1] = "checksum_flipped"
    /\ op[4] = 31
    /\ op[2][1] = 128
    /\ res.val = FALSE

\* C3: in single-ended mode an acquisition of channel ch in 0..10 writes
\* (ch << 4) | 0x0A, that is 16 * ch + 10, to the multiplexer register of its
\* converter (INPMUX, ADC2MUX) and nothing else to it; a channel above 10 is
\* answered InvalidChannel(ch, 10).
C3_SingleEndedMux ==
    (Acquisition /\ scan_mode = "SingleEnded") =>
        IF op[2] <= 10
        THEN /\ res.kind # "InvalidChannel"
             /\ \A w \in Writes(trace) : w = <<MuxReg, 16 * op[2] + 10>>
             /\ MuxWritten => Writes(trace) = {<<MuxReg, 16 * op[2] + 10>>}
             /\ (op[2] = 0 /\ MuxWritten) => HasAt(trace, 1, XWrite(MuxReg, 10))
             /\ (op[2] = 10 /\ MuxWritten) => HasAt(trace, 1, XWrite(MuxReg, 170))
        ELSE res.kind = "InvalidChannel" /\ res.e1 = op[2] /\ res.e2 = 10

\* channel 10 read from the auxiliary converter: 0xAA goes to ADC2MUX
C3_Witness ==
    /\ op[1] = "get_channel_value_adc2"
    /\ scan_mode = "SingleEnded"
    /\ op[2] = 10
    /\ res.kind = "Ok"
    /\ <<22, 170>> \in Writes(trace)

\* C4: in differential mode an acquisition of index i in 0..4 writes
\* ((2i) << 4) | (2i + 1), one of 0x01 0x23 0x45 0x67 0x89, to the multiplexer
\* register of its converter and nothing else to it; an index above 4 is
\* answered InvalidChannel(index, 4).
C4_DifferentialMux ==
    (Acquisition /\ scan_mode = "Differential") =>
        IF op[2] <= 4
        THEN /\ res.kind # "InvalidChannel"
             /\ \A w \in Writes(trace) : w = <<MuxReg, 32 * op[2] + 2 * op[2] + 1>>
             /\ MuxWritten => Writes(trace) = {<<MuxReg, <<1, 35, 69, 103, 137>>[op[2] + 1]>>}
        ELSE res.kind = "InvalidChannel" /\ res.e1 = op[2] /\ res.e2 = 4

\* pair 4 (AIN8, AIN9) read from the primary converter: 0x89 goes to INPMUX
C4_Witness ==
    /\ op[1] = "get_channel_value"
    /\ scan_mode = "Differential"
    /\ op[2] = 4
    /\ res.kind = "Ok"
    /\ <<6, 137>> \in Writes(trace)

\* C5: an acquisition of a channel above the limit of the current mode (10
\* single-ended, 4 differential) returns InvalidChannel(channel, limit) and
\* performs no transport operation at all.
C5_RangeErrorBeforeTransport ==
    LET limit == IF scan_mode = "SingleEnded" THEN 10 ELSE 4
    IN (Acquisition /\ op[2] > limit) =>
           /\ res = [kind |-> "InvalidChannel", val |-> 0, e1 |-> op[2], e2 |-> limit]
           /\ trace = <<>>

\* channel 5 is in range single-ended and out of range differential
C5_Witness ==
    /\ op[1] = "get_channel_value_adc2"
    /\ scan_mode = "Differential"
    /\ op[2] = 5
    /\ res.kind = "InvalidChannel"
    /\ res.e2 = 4

\* C6: the input mode is SingleEnded after new(), changes only through
\* set_mode (to the mode given), and no other operation changes it, whether it
\* succeeds or fails; an acquisition applies the channel limit of the mode
\* most recently set.
C6_ModeChangesOnlyBySetMode ==
    /\ [](op[1] = "new" => scan_mode = "SingleEnded")
    /\ [][ /\ op'[1] = "set_mode" => scan_mode' = op'[2]
           /\ op'[1] # "set_mode" => scan_mode' = scan_mode
           /\ op'[1] \in {"get_channel_value", "get_channel_value_adc2"} =>
                  (res'.kind = "InvalidChannel" <=>
                      op'[2] > (IF scan_mode = "SingleEnded" THEN 10 ELSE 4)) ]_vars

\* the mode is Differential after an initialization that failed on the bus
C6_Witness ==
    /\ scan_mode = "Differential"
    /\ op[1] = "init_adc1"
    /\ res.kind = "Spi"

\* the identity register read of an initialization, begun with the first byte
\* transfer after the reset sequence, completed
IdWasRead == op[3].failAt = 0 \/ op[3].failAt > 3

\* C7: read_chip_id returns the identity register byte shifted right by 5;
\* init_adc1 and init_adc2 return InvalidChipId(id) exactly when that value is
\* not 1, and have then transmitted no command (no stop, no start) and no
\* register write.
C7_ChipIdCheck ==
    /\ (op[1] = "read_chip_id" /\ res.kind = "Ok") => res.val = op[2].idb \div 32
    /\ op[1] \in {"init_adc1", "init_adc2"} =>
        /\ res.kind = "InvalidChipId" <=> (IdWasRead /\ op[3].idb \div 32 # 1)
        /\ res.kind = "InvalidChipId" =>
            /\ res.e1 = op[3].idb \div 32
            /\ Cmds(trace) = {}
            /\ Writes(trace) = {}
            /\ trace = XReset \o XRead(0, op[3].idb)

\* the identity register reads 0xFF: part number 7
C7_Witness ==
    /\ op[1] = "init_adc2"
    /\ op[3].idb = 255
    /\ res.kind = "InvalidChipId"
    /\ res.e1 = 7

\* start commands (of either converter) a call has transmitted after driving
\* the reset line low
StartsAfterReset(tr) ==
    {i \in CmdPositions(tr) :
        /\ tr[i + 1][2] \in {Start1, Start2}
        /\ \E j \in 1 .. i - 1 : tr[j] = <<"rst", 0>>}

\* C8: whenever init_adc1 fails on the identity register value, no conversion
\* is running when it returns, whatever ran before the call: the call has
\* first put the device through the full hardware reset cycle (reset line
\* high, low, high, 300 ms each), which ends any conversion an earlier
\* init_adc1 or start_adc1 had started, and has transmitted no start command
\* of either converter since; the reset line is left high.
C8_ResetThenNoStart ==
    (op[1] = "init_adc1" /\ res.kind = "InvalidChipId") =>
        /\ Len(trace) >= Len(XReset)
        /\ SubSeq(trace, 1, Len(XReset)) = XReset
        /\ StartsAfterReset(trace) = {}
        /\ \A i \in CmdPositions(trace) : trace[i + 1][2] \notin {Start1, Start2}
        /\ rst = 1

\* init_adc1 fails on part number 0 while the last command the primary
\* converter had received was Start1
C8_Witness ==
    /\ op[1] = "init_adc1"
    /\ op[3].idb = 0
    /\ res = [kind |-> "InvalidChipId", val |-> 0, e1 |-> 0, e2 |-> 0]
    /\ adc1_cmd = "Start1"
    /\ SubSeq(trace, 1, 6) = XReset

\* the rest of a successful init_adc1 after reset and identity read, with the
\* read-backs the device gave
XInitAdc1(rate, rbAt) ==
    LET back(k, data) == IF rbAt = k THEN (data + 1) % 256 ELSE data
    IN XCmd(10)
       \o XVerify(5, 128 + rate, back(1, 128 + rate))
       \o XVerify(15, 36, back(2, 36))
       \o XVerify(3, 3, back(3, 3))
       \o XVerify(4, 132, back(4, 132))
       \o XCmd(8)

XInitAdc2(rate, rbAt) ==
    LET back(k, data) == IF rbAt = k THEN (data + 1) % 256 ELSE data
    IN XCmd(14)
       \o XVerify(21, 32 + 64 * rate, back(1, 32 + 64 * rate))
       \o XVerify(3, 3, back(2, 3))

\* C9: a successful init_adc1 performs the reset-line sequence, the identity
\* register read, Stop1, the primary configuration, then Start1 as its last
\* command; a successful init_adc2 performs reset, identity read, Stop2 and the
\* auxiliary configuration, and never transmits Start2.
C9_InitOrder ==
    /\ (op[1] = "init_adc1" /\ res.kind = "Ok") =>
        /\ trace = XReset \o XRead(0, op[3].idb) \o XInitAdc1(op[2], op[3].rbAt)
        /\ HasAt(trace, Len(trace) - 2, XCmd(8))
        /\ Cmds(trace) = {10, 8}
    /\ (op[1] = "init_adc2" /\ res.kind = "Ok") =>
        /\ trace = XReset \o XRead(0, op[3].idb) \o XInitAdc2(op[2], op[3].rbAt)
        /\ Cmds(trace) = {14}

\* init_adc1 at 38400 SPS succeeded although REFMUX read back differently
C9_Witness ==
    /\ op[1] = "init_adc1"
    /\ op[2] = 15
    /\ op[3].rbAt = 2
    /\ res.kind = "Ok"
    /\ adc1_cmd = "Start1"

\* C10: a successful write_reg(reg, data) performs exactly: chip-select low,
\* 0x40 | address, 0x00, the data byte, chip-select high.
C10_WriteRegSequence ==
    (op[1] = "write_reg" /\ res.kind = "Ok") =>
        trace = << <<"cs", 0>>, <<"tx", 64 + op[2]>>, <<"tx", 0>>,
                   <<"tx", op[3]>>, <<"cs", 1>> >>

\* the last register (ADC2FSC1, 0x1A) written with 0xFF
C10_Witness ==
    /\ op[1] = "write_reg"
    /\ op[2] = 26
    /\ op[3] = 255
    /\ res.kind = "Ok"
    /\ Len(trace) = 5

\* C11: a successful read_reg(reg) performs exactly: chip-select low,
\* 0x20 | address, 0x00, one byte read, chip-select high; and it returns the
\* byte that was read.
C11_ReadRegSequence ==
    (op[1] = "read_reg" /\ res.kind = "Ok") =>
        /\ Len(trace) = 5
        /\ trace[1] = <<"cs", 0>>
        /\ trace[2] = <<"tx", 32 + op[2]>>
        /\ trace[3] = <<"tx", 0>>
        /\ trace[4][1] = "rx"
        /\ trace[5] = <<"cs", 1>>
        /\ res.val = trace[4][2]
        /\ res.val = op[3]

\* the last register (0x1A) read while the device answers 0xAA
C11_Witness ==
    /\ op[1] = "read_reg"
    /\ op[2] = 26
    /\ op[3] = 170
    /\ res.kind = "Ok"
    /\ res.val = 170

\* C12: write_reg_verify performs one register write, a wait of at least 1 ms,
\* then one read of the same register; when no transport operation fails it
\* returns success whether or not the byte read back equals the byte written,
\* and it emits one diagnostic event, a warning on a mismatch and an
\* information on a match.
C12_VerifyIsReportOnly ==
    (op[1] = "write_reg_verify" /\ op[4].failAt = 0) =>
        LET back == trace[10][2]
        IN /\ res.kind = "Ok"
           /\ Len(trace) = 11
           /\ SubSeq(trace, 1, 5) = XWrite(op[2], op[3])
           /\ trace[6][1] = "delay" /\ trace[6][2] >= 1
           /\ SubSeq(trace, 7, 11) = XRead(op[2], back)
           /\ Len(diag) = 1
           /\ back = op[3] => diag[1][1] = "info"
           /\ back # op[3] => diag[1][1] = "warn"
           /\ (op[4].rbAt = 1) <=> (back # op[3])

\* 0xFF written, 0x00 read back: success, with the warning
C12_Witness ==
    /\ op[1] = "write_reg_verify"
    /\ op[3] = 255
    /\ res.kind = "Ok"
    /\ Len(trace) = 11 /\ trace[10] = <<"rx", 0>>
    /\ diag = << <<"warn", "configuration mismatch", "REG">> >>

\* the byte the device gave back at the k-th verified write of the call
Back(env, k, data) == IF env.rbAt = k THEN (data + 1) % 256 ELSE data

\* C13: for every gain, data rate and delay, a successful config_adc1 performs
\* four verified writes in this order: MODE2 = 0x80 | (gain << 4) | rate,
\* REFMUX = 0x24, MODE0 = delay code, MODE1 = 0x84; in the MODE2 byte bit 7 is
\* set, bits 4..6 are the gain code and bits 0..3 the rate code.
C13_ConfigAdc1Writes ==
    (op[1] = "config_adc1" /\ res.kind = "Ok") =>
        LET gain  == op[2]
            rate  == op[3]
            delay == op[4]
            mode2 == trace[4][2]
        IN /\ mode2 = 128 + 16 * gain + rate
           /\ mode2 \div 128 = 1
           /\ (mode2 \div 16) % 8 = gain
           /\ mode2 % 16 = rate
           /\ trace = XVerify(5, mode2, Back(op[5], 1, mode2))
                      \o XVerify(15, 36, Back(op[5], 2, 36))
                      \o XVerify(3, delay, Back(op[5], 3, delay))
                      \o XVerify(4, 132, Back(op[5], 4, 132))

\* the largest gain, rate and delay codes: MODE2 = 0xEF, MODE0 = 0x0B
C13_Witness ==
    /\ op[1] = "config_adc1"
    /\ op[2] = 6 /\ op[3] = 15 /\ op[4] = 11
    /\ res.kind = "Ok"
    /\ Writes(trace) = {<<5, 239>>, <<15, 36>>, <<3, 11>>, <<4, 132>>}

\* C14: for every auxiliary gain, auxiliary data rate and delay, a successful
\* config_adc2 performs two verified writes in this order: ADC2CFG =
\* 0x20 | (rate << 6) | gain, then MODE0 = delay code; in the ADC2CFG byte bits
\* 6..7 are the rate code, bits 0..2 the gain code, and bits 3..5 are the fixed
\* reference selection 0b100.
C14_ConfigAdc2Writes ==
    (op[1] = "config_adc2" /\ res.kind = "Ok") =>
        LET gain  == op[2]
            rate  == op[3]
            delay == op[4]
            cfg   == trace[4][2]
        IN /\ cfg = 32 + 64 * rate + gain
           /\ cfg \div 64 = rate
           /\ cfg % 8 = gain
           /\ (cfg \div 8) % 8 = 4
           /\ trace = XVerify(21, cfg, Back(op[5], 1, cfg))
                      \o XVerify(3, delay, Back(op[5], 2, delay))

\* the largest auxiliary gain and rate codes: ADC2CFG = 0xE7
C14_Witness ==
    /\ op[1] = "config_adc2"
    /\ op[2] = 7 /\ op[3] = 3 /\ op[4] = 0
    /\ res.kind = "Ok"
    /\ Writes(trace) = {<<21, 231>>, <<3, 0>>}

\* bit k of byte b is set
Bit(b, k) == (b \div Pow2(k)) % 2 = 1

\* the polls of a frame read whose trace is tr: what precedes the five frame
\* bytes and the deselect, two transfers to a poll
FramePolls(tr) == (Len(tr) - 7) \div 2

\* tr is: select, then polls (cmd sent, status byte read) of which the last
\* one, and only it, has bit k set, then five bytes read, then deselect
FrameShape(tr, cmd, k) ==
    LET p == FramePolls(tr)
    IN /\ Len(tr) >= 9 /\ Len(tr) = 2 * p + 7
       /\ tr[1] = <<"cs", 0>>
       /\ \A i \in 1 .. p :
            /\ tr[2 * i] = <<"tx", cmd>>
            /\ tr[2 * i + 1][1] = "rx"
            /\ Bit(tr[2 * i + 1][2], k) <=> i = p
       /\ \A j \in 1 .. 5 : tr[2 * p + 1 + j][1] = "rx"
       /\ tr[Len(tr)] = <<"cs", 1>>

\* the j-th byte read after the status byte
FrameByte(tr, j) == tr[2 * FramePolls(tr) + 1 + j][2]

\* the bytes read after the last status byte
ReadAfterStatus(tr) ==
    Cardinality({i \in 2 * FramePolls(tr) + 2 .. Len(tr) : tr[i][1] = "rx"})

\* C15: a successful primary frame read selects the device, repeats (send
\* 0x12, read a status byte) until a status byte has bit 6 set, reads 4 data
\* bytes b0..b3 and 1 checksum byte, deselects, and returns
\* (b0 << 24) | (b1 << 16) | (b2 << 8) | b3.
C15_Adc1Frame ==
    (op[1] = "read_adc1_data" /\ res.kind = "Ok") =>
        /\ FrameShape(trace, 18, 6)
        /\ \A j \in 1 .. 5 : FrameByte(trace, j) = op[2].frames[1][j]
        /\ res.val = <<FrameByte(trace, 1), FrameByte(trace, 2),
                       FrameByte(trace, 3), FrameByte(trace, 4)>>

\* three polls: not ready, only the auxiliary bit, then bit 6
C15_Witness ==
    /\ op[1] = "read_adc1_data"
    /\ op[2].sts = <<0, 128, 64>>
    /\ res.kind = "Ok"
    /\ res.val = <<18, 52, 86, 120>>
    /\ Len(trace) = 13

\* what an auxiliary frame read does but for the count of bytes: polls with
\* 0x14 until bit 7, result = the three data bytes in the low 24 bits (top
\* byte 0, so below 2^24), checksum warning decided by the data bytes and the
\* checksum byte alone
Adc2FrameBody ==
    LET b0  == FrameByte(trace, 1)
        b1  == FrameByte(trace, 2)
        b2  == FrameByte(trace, 3)
        crc == FrameByte(trace, 5)
    IN /\ FrameShape(trace, 20, 7)
       /\ \A j \in 1 .. 5 : FrameByte(trace, j) = op[2].frames[1][j]
       /\ res.val = <<0, b0, b1, b2>>
       /\ diag = IF (b0 + b1 + b2 + 155) % 256 = crc
                 THEN <<>>
                 ELSE << <<"warn", "ADC2 checksum error", "">> >>

\* C16 (amended): a successful auxiliary frame read polls with 0x14 until a
\* status byte has bit 7 set, then reads 3 data bytes (big-endian into the low
\* 24 bits of the result), one padding byte that influences neither the result
\* nor the checksum, and the checksum byte: 5 bytes read after the status byte.
C16_Adc2Frame ==
    (op[1] = "read_adc2_data" /\ res.kind = "Ok") =>
        /\ Adc2FrameBody
        /\ ReadAfterStatus(trace) = 5

\* the padding byte is 0xFF, the data bytes are 0 and the checksum matches
C16_Witness ==
    /\ op[1] = "read_adc2_data"
    /\ op[2].frames = << <<0, 0, 0, 255, 155>> >>
    /\ res.kind = "Ok"
    /\ res.val = <<0, 0, 0, 0>>
    /\ diag = <<>>

\* C16 as stated: the same, with 6 bytes read after the status byte.
C16_AsStated ==
    (op[1] = "read_adc2_data" /\ res.kind = "Ok") =>
        /\ Adc2FrameBody
        /\ ReadAfterStatus(trace) = 6

\* one of the status bytes the device will answer has bit k set
ReadyIn(sts, k) == \E i \in 1 .. Len(sts) : Bit(sts[i], k)

\* the acquisition is of a channel in range, and neither the bus nor the
\* data-ready line nor the status poll (ready bit k) stops it
AcquisitionCompletes(name, k) ==
    /\ op[1] = name
    /\ op[2] <= (IF scan_mode = "SingleEnded" THEN 10 ELSE 4)
    /\ op[3].failAt = 0
    /\ name = "get_channel_value" => op[3].drdys[1] < TIMEOUT_ITERATIONS
    /\ ReadyIn(op[3].sts, k)

\* C17: a checksum mismatch is never a hard failure: a primary or auxiliary
\* frame read that nothing else stops returns success with the sample
\* assembled from the data bytes, whatever the checksum byte is (a mismatch
\* leaves a warning); and no operation ever returns ChecksumError or
\* RegisterVerifyFailed.
C17_ChecksumNeverFatal ==
    /\ res.kind \notin {"ChecksumError", "RegisterVerifyFailed"}
    /\ AcquisitionCompletes("get_channel_value", 6) =>
        LET f == op[3].frames[1]
        IN /\ res.kind = "Ok"
           /\ res.val = <<f[1], f[2], f[3], f[4]>>
           /\ (f[1] + f[2] + f[3] + f[4] + 155) % 256 # f[5] =>
                  diag = << <<"warn", "ADC1 checksum error", "">> >>
    /\ AcquisitionCompletes("get_channel_value_adc2", 7) =>
        LET f == op[3].frames[1]
        IN /\ res.kind = "Ok"
           /\ res.val = <<0, f[1], f[2], f[3]>>
           /\ (f[1] + f[2] + f[3] + 155) % 256 # f[5] =>
                  diag = << <<"warn", "ADC2 checksum error", "">> >>

\* a primary frame whose checksum byte is wrong: the sample is returned
C17_Witness ==
    /\ op[1] = "get_channel_value"
    /\ op[3].frames = << <<128, 0, 0, 1, 0>> >>
    /\ res.kind = "Ok"
    /\ res.val = <<128, 0, 0, 1>>
    /\ diag = << <<"warn", "ADC1 checksum error", "">> >>

\* the channel of the acquisition is within the limit of the current mode
InRange == op[2] <= (IF scan_mode = "SingleEnded" THEN 10 ELSE 4)

\* the multiplexer byte of the channel under the current mode
MuxByte == IF scan_mode = "SingleEnded" THEN 16 * op[2] + 10 ELSE 34 * op[2] + 1

\* the positions at which tr begins a frame read with command cmd
ReadDataPositions(tr, cmd) ==
    {i \in 1 .. Len(tr) - 1 : tr[i] = <<"cs", 0>> /\ tr[i + 1][2] = cmd
                              /\ tr[i + 1][1] \in {"tx", "spierr"}}

\* C18: for an in-range channel, get_channel_value first writes the
\* multiplexer byte of that channel under the current mode to INPMUX, then
\* waits on the data-ready line, and starts the frame read only after the wait
\* succeeded: the INPMUX write is the only register write of the call and
\* precedes the frame read, whatever operations came before.
C18_MuxThenWaitThenRead ==
    (op[1] = "get_channel_value" /\ InRange) =>
        /\ MuxWritten => HasAt(trace, 1, XWrite(6, MuxByte))
        /\ Len(trace) >= 6 => trace[6][1] = "drdy"
        /\ \A i \in ReadDataPositions(trace, 18) : i = 7
        /\ Len(trace) > 6 =>
            /\ op[3].drdys[1] < TIMEOUT_ITERATIONS
            /\ ReadDataPositions(trace, 18) = {7}
            /\ Writes(trace) = {<<6, MuxByte>>}
        /\ res.kind = "Timeout" <=>
               (op[3].failAt = 0 /\ op[3].drdys[1] >= TIMEOUT_ITERATIONS)
        /\ res.kind = "Timeout" => Len(trace) = 6
        /\ res.kind = "Ok" => FrameShape(SubSeq(trace, 7, Len(trace)), 18, 6)

\* differential pair 3 read after the line was high for all polls but the last
C18_Witness ==
    /\ op[1] = "get_channel_value"
    /\ scan_mode = "Differential"
    /\ op[2] = 3
    /\ res.kind = "Ok"
    /\ HasAt(trace, 1, XWrite(6, 103))
    /\ trace[6] = <<"drdy", TIMEOUT_ITERATIONS>>
    /\ trace[8] = <<"tx", 18>>

\* C19: whenever get_channel_value or read_rtd returns Timeout, chip-select is
\* deasserted, no read-data command has been transmitted, and the last
\* Start1/Stop1 command sent is the same as before the call.
C19_TimeoutKeepsState ==
    [][ (op'[1] \in {"get_channel_value", "read_rtd"} /\ res'.kind = "Timeout") =>
            /\ cs' = 1
            /\ ReadDataPositions(trace', 18) = {}
            /\ adc1_cmd' = adc1_cmd ]_vars

\* C20: for an in-range channel, get_channel_value_adc2 writes the multiplexer
\* byte to ADC2MUX, then transmits Start2, then begins the auxiliary frame
\* read at once: it never polls the data-ready line and never transmits Stop2.
C20_Adc2StartThenRead ==
    (op[1] = "get_channel_value_adc2" /\ InRange) =>
        /\ \A i \in 1 .. Len(trace) : trace[i][1] # "drdy"
        /\ 14 \notin Cmds(trace)
        /\ res.kind # "Timeout"
        /\ MuxWritten => HasAt(trace, 1, XWrite(22, MuxByte))
        /\ Len(trace) >= 8 => HasAt(trace, 6, XCmd(12))
        /\ \A i \in ReadDataPositions(trace, 20) : i = 9
        /\ Len(trace) > 8 =>
            /\ ReadDataPositions(trace, 20) = {9}
            /\ Writes(trace) = {<<22, MuxByte>>}
            /\ Cmds(trace) = {12}
        /\ res.kind = "Ok" => FrameShape(SubSeq(trace, 9, Len(trace)), 20, 7)

\* channel 7 read from the auxiliary converter while the data-ready line
\* would have stayed high
C20_Witness ==
    /\ op[1] = "get_channel_value_adc2"
    /\ scan_mode = "SingleEnded"
    /\ op[2] = 7
    /\ op[3].drdys = <<TIMEOUT_ITERATIONS>>
    /\ res.kind = "Ok"
    /\ HasAt(trace, 1, XWrite(22, 122) \o XCmd(12))
    /\ trace[10] = <<"tx", 20>>

\* the k-th smallest element of a set of positions
Nth(P, k) == CHOOSE p \in P : Cardinality({q \in P : q < p}) = k - 1

\* the <<register, data>> pairs tr writes, in the order it writes them
WriteSeq(tr) ==
    LET P == WritePositions(tr)
    IN [k \in 1 .. Cardinality(P) |->
          <<tr[Nth(P, k) + 1][2] - 64, tr[Nth(P, k) + 3][2]>>]

\* the commands tr transmits, in the order it transmits them
CmdSeq(tr) ==
    LET P == CmdPositions(tr)
    IN [k \in 1 .. Cardinality(P) |-> tr[Nth(P, k) + 1][2]]

\* C21: whenever every transport operation succeeds, get_all_adc2 writes the
\* single-ended multiplexer bytes of channels 0, 1, ..., 9 to ADC2MUX in that
\* order, transmits Start2 before and Stop2 after each channel's frame read,
\* and returns the 10 samples in channel order.
C21_ScanAdc2AllChannels ==
    (op[1] = "get_all_adc2" /\ op[2].failAt = 0 /\ ReadyIn(op[2].sts, 7)) =>
        /\ res.kind = "Ok"
        /\ WriteSeq(trace) = [i \in 1 .. 10 |-> <<22, 16 * (i - 1) + 10>>]
        /\ CmdSeq(trace) = [i \in 1 .. 20 |-> IF i % 2 = 1 THEN 12 ELSE 14]
        /\ res.val = [i \in 1 .. 10 |->
                        LET f == Cyc(op[2].frames, i) IN <<0, f[1], f[2], f[3]>>]

\* a register write followed by a wait of 1 ms
XWriteWait(reg, data) == XWrite(reg, data) \o << <<"delay", 1>> >>

\* what read_rtd transmits before it waits for the conversion
XRtdSetup(delay, gain, rate) ==
    XWriteWait(3, delay) \o XWriteWait(13, 163) \o XWriteWait(14, 51)
    \o XWriteWait(5, 16 * gain + rate) \o XWriteWait(6, 118) \o XWriteWait(15, 27)
    \o XCmd(8) \o << <<"delay", 10>> >>

\* C22: a successful read_rtd writes MODE0 = delay code, IDACMUX = 0xA3,
\* IDACMAG = 0x33, MODE2 = (gain << 4) | rate, INPMUX = 0x76, REFMUX = 0x1B in
\* this order, each followed by a 1 ms wait; then Start1, a 10 ms wait, the
\* data-ready wait, one primary frame read, and Stop1 as the last command; it
\* returns the frame's sample.
C22_ReadRtdSequence ==
    (op[1] = "read_rtd" /\ res.kind = "Ok") =>
        LET n     == Len(trace)
            frame == SubSeq(trace, 42, n - 3)
        IN /\ SubSeq(trace, 1, 40) = XRtdSetup(op[2][1], op[2][2], op[2][3])
           /\ trace[41][1] = "drdy"
           /\ op[3].drdys[1] < TIMEOUT_ITERATIONS
           /\ FrameShape(frame, 18, 6)
           /\ SubSeq(trace, n - 2, n) = XCmd(10)
           /\ CmdSeq(trace) = <<8, 10>>
           /\ Len(WriteSeq(trace)) = 6
           /\ res.val = <<FrameByte(frame, 1), FrameByte(frame, 2),
                          FrameByte(frame, 3), FrameByte(frame, 4)>>
           /\ adc1_cmd = "Stop1"

\* the largest delay, gain and rate codes: MODE0 = 0x0B, MODE2 = 0x6F
C22_Witness ==
    /\ op[1] = "read_rtd"
    /\ op[2] = <<11, 6, 15>>
    /\ res.kind = "Ok"
    /\ res.val = <<18, 52, 86, 120>>
    /\ WriteSeq(trace) = << <<3, 11>>, <<13, 163>>, <<14, 51>>, <<5, 111>>,
                            <<6, 118>>, <<15, 27>> >>

\* the single-ended bytes of channels 0..10 and the five differential pairings
ChannelMuxBytes == {16 * ch + 10 : ch \in 0 .. 10} \cup {1, 35, 69, 103, 137}

\* C23 (amended): every byte written to INPMUX by a channel acquisition is a
\* single-ended byte (ch << 4) | 0x0A with ch in 0..10 or one of the pairings
\* 0x01, 0x23, 0x45, 0x67, 0x89; the only other byte ever written to INPMUX is
\* the fixed RTD sense pair 0x76 (AIN7, AIN6), written by read_rtd.
C23_InpMuxBytes ==
    \A w \in Writes(trace) :
        w[1] = 6 => IF op[1] = "read_rtd" THEN w[2] = 118
                    ELSE w[2] \in ChannelMuxBytes

\* read_rtd has written 0x76 to INPMUX
C23_Witness ==
    /\ op[1] = "read_rtd"
    /\ res.kind = "Ok"
    /\ <<6, 118>> \in Writes(trace)
    /\ 118 \notin ChannelMuxBytes

\* C23 as stated: every byte written to INPMUX is a single-ended byte or one
\* of the five differential pairing bytes.
C23_AsStated ==
    \A w \in Writes(trace) : w[1] = 6 => w[2] \in ChannelMuxBytes

\* C24: set_dac writes exactly one register, TDACP (0x10) when positive is
\* true and TDACN (0x11) otherwise, with the byte 0x00 when enable is false and
\* (level code | 0x80) when enable is true; it reads nothing back, and the
\* enable bit lies outside the 5-bit level code.
C24_SetDacWrite ==
    op[1] = "set_dac" =>
        LET level == op[2]
            reg   == IF op[3] THEN 16 ELSE 17
            byte  == IF op[4] THEN 128 + level ELSE 0
        IN /\ level < 32
           /\ op[4] => (byte % 32 = level /\ byte \div 32 = 4)
           /\ \A i \in 1 .. Len(trace) : trace[i][1] # "rx"
           /\ Writes(trace) \subseteq {<<reg, byte>>}
           /\ Cmds(trace) = {}
           /\ res.kind = "Ok" <=> op[5].failAt = 0
           /\ res.kind = "Ok" => trace = XWrite(reg, byte)

\* the negative output enabled at the highest level code 0b11001: 0x99 to TDACN
C24_Witness ==
    /\ op[1] = "set_dac"
    /\ op[2] = 25 /\ op[3] = FALSE /\ op[4] = TRUE
    /\ res.kind = "Ok"
    /\ trace = XWrite(17, 153)

----------------------------------------------------------------------------
(* ads1263.rs: unit conversion.  The f64 expressions are modelled by the    *)
(* rational numbers they denote, without the rounding of f64.  A natural    *)
(* number is kept as BigWidth digits of base 256, least significant first;  *)
(* a voltage as [neg, num, den]: the rational (-1)^neg * num / den.         *)

BigDigits == 1 .. 10

\* the natural number n < 2^31
BigOfInt(n) ==
    [i \in BigDigits |-> IF i <= 4 THEN (n \div Pow2(8 * (i - 1))) % 256 ELSE 0]

\* raw as f64: the value of the u32 whose bytes are v
BigOfU32(v) == [i \in BigDigits |-> IF i <= 4 THEN v[5 - i] ELSE 0]

\* the carry out of digit i of a + b
RECURSIVE AddCarry(_, _, _)
AddCarry(a, b, i) ==
    IF i = 0 THEN 0 ELSE (a[i] + b[i] + AddCarry(a, b, i - 1)) \div 256

\* a + b; the operands are bound to their values before the digits are computed
BigAdd(a, b) ==
    CHOOSE r \in {[i \in BigDigits |-> (p[1][i] + p[2][i] + AddCarry(p[1], p[2], i - 1)) % 256] :
                    p \in {<<a, b>>}} : TRUE

\* the borrow out of digit i of a - b
RECURSIVE SubBorrow(_, _, _)
SubBorrow(a, b, i) ==
    IF i = 0 THEN 0
    ELSE IF a[i] - b[i] - SubBorrow(a, b, i - 1) < 0 THEN 1 ELSE 0

\* a - b, for a >= b
BigSub(a, b) ==
    CHOOSE r \in {[i \in BigDigits |->
                       (p[1][i] - p[2][i] - SubBorrow(p[1], p[2], i - 1) + 256) % 256] :
                    p \in {<<a, b>>}} : TRUE

\* the carry out of digit i of a * k, for a digit k
RECURSIVE MulCarry(_, _, _)
MulCarry(a, k, i) ==
    IF i = 0 THEN 0 ELSE (a[i] * k + MulCarry(a, k, i - 1)) \div 256

BigMulDigit(a, k) ==
    CHOOSE r \in {[i \in BigDigits |-> (p[1][i] * p[2] + MulCarry(p[1], p[2], i - 1)) % 256] :
                    p \in {<<a, k>>}} : TRUE

\* a * 256^d
BigShift(a, d) ==
    CHOOSE r \in {[i \in BigDigits |-> IF i > d THEN x[i - d] ELSE 0] : x \in {a}} : TRUE

\* the sum over the digits j..1 of b of a * b[j] * 256^(j - 1)
RECURSIVE BigMulFrom(_, _, _)
BigMulFrom(a, b, j) ==
    IF j = 0 THEN BigOfInt(0)
    ELSE BigAdd(BigShift(BigMulDigit(a, b[j]), j - 1), BigMulFrom(a, b, j - 1))

\* a * b, for a product below 256^10
BigMul(a, b) == CHOOSE r \in {BigMulFrom(p[1], p[2], 5) : p \in {<<a, b>>}} : TRUE

\* a <= b
BigLeq(a, b) ==
    \E p \in {<<a, b>>} :
        \/ p[1] = p[2]
        \/ \E i \in BigDigits :
              p[1][i] < p[2][i] /\ \A j \in BigDigits : j > i => p[1][j] = p[2][j]

\* 2147483648.0, 2147483647.0, 8388608.0, 8388607.0
Two31 == BigOfU32(<<128, 0, 0, 0>>)
Two31m1 == BigOfU32(<<127, 255, 255, 255>>)
Two23 == BigOfU32(<<0, 128, 0, 0>>)
Two23m1 == BigOfU32(<<0, 127, 255, 255>>)

\* raw >> 31 and raw >> 23 of a u32
Shr31(v) == v[1] \div 128
Shr23(v) == 2 * v[1] + v[2] \div 128

\* -(reference * 2.0 - (raw / full) * reference)
NegativeBranch(raw, reference, full) ==
    [neg |-> TRUE,
     num |-> BigSub(BigMul(BigOfInt(2 * reference), full),
                    BigMul(BigOfU32(raw), BigOfInt(reference))),
     den |-> full]

\* (raw / full) * reference
PositiveBranch(raw, reference, full) ==
    [neg |-> FALSE, num |-> BigMul(BigOfU32(raw), BigOfInt(reference)), den |-> full]

\* variant: both branches divide by 2^31
raw_to_voltage_adc1_one_divisor(raw, reference) ==
    IF Shr31(raw) = 1 THEN NegativeBranch(raw, reference, Two31)
    ELSE PositiveBranch(raw, reference, Two31)

raw_to_voltage_adc1(raw, reference) ==
    IF Shr31(raw) = 1 THEN NegativeBranch(raw, reference, Two31)
    ELSE PositiveBranch(raw, reference, Two31m1)

raw_to_voltage_adc2(raw, reference) ==
    IF Shr23(raw) = 1 THEN NegativeBranch(raw, reference, Two23)
    ELSE PositiveBranch(raw, reference, Two23m1)

\* raw codes: every byte one of 0x00, 0x01, 0x7F, 0x80, 0xFF
RawChoices == [1 .. 4 -> {0, 1, 127, 128, 255}]

\* reference voltages, in tenths of a volt: 0.1 V, 2.5 V, 5.0 V
RefChoices == {1, 25, 50}

InitVoltage ==
    /\ scan_mode = "SingleEnded"
    /\ cs = 1
    /\ rst = 1
    /\ alive = TRUE
    /\ adc1_cmd = "none"
    /\ op \in {<<"voltage_args", raw, ref>> : raw \in RawChoices, ref \in RefChoices}
    /\ res = [kind |-> "Ok", val |-> 0, e1 |-> 0, e2 |-> 0]
    /\ trace = <<>>
    /\ diag = <<>>

RawToVoltageAdc1 ==
    /\ op[1] = "voltage_args"
    /\ op' = <<"raw_to_voltage_adc1", op[2], op[3]>>
    /\ res' = [res EXCEPT !.val = raw_to_voltage_adc1(op[2], op[3])]
    /\ UNCHANGED <<scan_mode, cs, rst, alive, adc1_cmd, trace, diag>>

RawToVoltageAdc2 ==
    /\ op[1] = "voltage_args"
    /\ op' = <<"raw_to_voltage_adc2", op[2], op[3]>>
    /\ res' = [res EXCEPT !.val = raw_to_voltage_adc2(op[2], op[3])]
    /\ UNCHANGED <<scan_mode, cs, rst, alive, adc1_cmd, trace, diag>>

NextVoltage ==
    \/ RawToVoltageAdc1
    \/ RawToVoltageAdc2

SpecVoltage == InitVoltage /\ [][NextVoltage]_vars

\* the voltage v is the rational num / den, resp. -(num / den)
IsPlus(v, num, den) == ~v.neg /\ BigMul(v.num, den) = BigMul(num, v.den)
IsMinus(v, num, den) ==
    v.neg /\ v.num # BigOfInt(0) /\ BigMul(v.num, den) = BigMul(num, v.den)

\* C25 (amended): for the primary converter with V_ref > 0 the conversion is,
\* in exact rational arithmetic, raw * V_ref / (2^31 - 1) when bit 31 of raw is
\* clear and -(2 * V_ref - raw * V_ref / 2^31) when it is set; its sign flips
\* exactly between raw = 0x7FFFFFFF, which maps to +V_ref, and
\* raw = 0x80000000, which maps to -V_ref.
C25_Adc1SignFlip ==
    op[1] = "raw_to_voltage_adc1" =>
        LET raw == BigOfU32(op[2])
            ref == BigOfInt(op[3])
            v   == res.val
        IN /\ BigLeq(raw, Two31m1) =>
                IsPlus(v, BigMul(raw, ref), Two31m1)
           /\ BigLeq(Two31, raw) =>
                IsMinus(v, BigSub(BigMul(BigOfInt(2 * op[3]), Two31), BigMul(raw, ref)), Two31)
           /\ raw = Two31m1 => IsPlus(v, ref, BigOfInt(1))
           /\ raw = Two31 => IsMinus(v, ref, BigOfInt(1))

\* raw = 0x80000000 with a reference of 2.5 V: -(2^31 * 25) / 2^31
C25_Witness ==
    /\ op[1] = "raw_to_voltage_adc1"
    /\ op[2] = <<128, 0, 0, 0>>
    /\ op[3] = 25
    /\ res.val = [neg |-> TRUE, num |-> BigMulDigit(Two31, 25), den |-> Two31]

\* C25 as stated: raw = 0x7FFFFFFF maps to about +V_ref * (1 - 2^-31) (taken
\* as: within V_ref * 2^-31 of it) and raw = 0x80000000 maps to -2 * V_ref.
C25_AsStated ==
    op[1] = "raw_to_voltage_adc1" =>
        LET raw == BigOfU32(op[2])
            ref == BigOfInt(op[3])
            v   == res.val
        IN /\ raw = Two31m1 =>
                /\ ~v.neg
                /\ BigLeq(BigMul(BigMul(ref, BigSub(Two31m1, BigOfInt(1))), v.den),
                          BigMul(v.num, Two31))
                /\ BigLeq(v.num, BigMul(ref, v.den))
           /\ raw = Two31 => IsMinus(v, BigOfInt(2 * op[3]), BigOfInt(1))

\* C26: raw_to_voltage_adc1 takes the negative branch exactly when bit 31 of
\* raw is set, and raw_to_voltage_adc2 exactly when bit 23 of raw is set, also
\* for raw codes of 2^24 or more.
C26_BranchByBit ==
    /\ op[1] = "raw_to_voltage_adc1" => (res.val.neg <=> Bit(op[2][1], 7))
    /\ op[1] = "raw_to_voltage_adc2" => (res.val.neg <=> Bit(op[2][2], 7))

----------------------------------------------------------------------------
(* The ready wait                                                          *)

\* positions of the ready waits in a trace
WaitPositions(tr) == {i \in 1 .. Len(tr) : tr[i][1] = "drdy"}

\* polls that see the line high at the start of the wait at position i
HighPolls(tr, env, i) == Cyc(env.drdys, Cardinality({j \in WaitPositions(tr) : j <= i}))

\* C27: wait_drdy always terminates, after at most 4,000,000 polls: it returns
\* success at the first poll that observes the ready line low, and returns
\* the Timeout error after 4,000,000 consecutive polls have all observed the
\* line high; Timeout is returned in no other case.
C27_WaitDrdy ==
    /\ \A i \in WaitPositions(trace) :
        LET high == HighPolls(trace, op[Len(op)], i)
        IN /\ trace[i][2] \in 1 .. TIMEOUT_ITERATIONS
           /\ high < TIMEOUT_ITERATIONS =>
                /\ trace[i][2] = high + 1
                /\ ~(i = Len(trace) /\ res.kind = "Timeout")
           /\ high >= TIMEOUT_ITERATIONS =>
                /\ trace[i] = <<"drdy", TIMEOUT_ITERATIONS>>
                /\ i = Len(trace)
                /\ res.kind = "Timeout"
    /\ res.kind = "Timeout" =>
        /\ trace # <<>>
        /\ trace[Len(trace)] = <<"drdy", TIMEOUT_ITERATIONS>>
        /\ HighPolls(trace, op[Len(op)], Len(trace)) >= TIMEOUT_ITERATIONS
        /\ diag # <<>>
        /\ diag[Len(diag)] = <<"error", "Timeout waiting for DRDY", "">>

\* the line goes low at the last poll allowed: success after 4,000,000 polls
C27_Witness ==
    /\ op[1] = "get_channel_value"
    /\ op[3].drdys = <<TIMEOUT_ITERATIONS - 1>>
    /\ <<"drdy", TIMEOUT_ITERATIONS>> \in {trace[i] : i \in 1 .. Len(trace)}
    /\ res.kind = "Ok"

----------------------------------------------------------------------------
(* The output lines                                                        *)

\* C28: once the transport handle has been dropped, the reset line and the
\* chip-select line are at their inactive level, which is high for both
\* (chip-select low selects the device, reset is active low).
C28_DropLeavesLinesInactive == ~alive => (rst = 1 /\ cs = 1)

\* positions of the chip-select changes in a trace
CsPositions(tr) == {i \in 1 .. Len(tr) : tr[i][1] = "cs"}

\* the level of chip-select when the event at position i happens, in a call
\* entered with chip-select at level before
CsAt(tr, before, i) ==
    LET P == {j \in CsPositions(tr) : j < i}
    IN IF P = {} THEN before ELSE tr[CHOOSE j \in P : \A k \in P : k <= j][2]

\* the chip-select changes of a call alternate: select, deselect, select, ...
Framed(tr) ==
    \A i \in CsPositions(tr) :
        tr[i][2] = Cardinality({j \in CsPositions(tr) : j < i}) % 2

\* C29: every byte transfer happens while chip-select is asserted (low), each
\* transaction is framed as select, transact, deselect, and chip-select is
\* deasserted (high) whenever an engine operation returns to the caller, on
\* success and on every error exit, a transport failure in the middle of a
\* transaction included.
C29_ChipSelectFraming ==
    /\ \A i \in 1 .. Len(trace) :
        trace[i][1] \in {"tx", "rx", "spierr"} => CsAt(trace, 1, i) = 0
    /\ Framed(trace)
    /\ (op[1] \notin {"new", "idle", "drop"} /\ res.kind # "Hang") => cs = 1

----------------------------------------------------------------------------
(* Transport failures                                                      *)

\* positions of the byte transfers in a trace, the failed one included
TransferPositions(tr) == {i \in 1 .. Len(tr) : tr[i][1] \in {"tx", "rx", "spierr"}}

\* C30: when a byte transfer fails inside an engine operation, the operation
\* returns the transport error and performs no further transport operation:
\* the failed transfer is the last event of the call and is not retried, so in
\* a multi-step operation the steps after the failing one are not executed.
C30_FailureStopsCall ==
    /\ \A i \in 1 .. Len(trace) :
        trace[i][1] = "spierr" => (i = Len(trace) /\ res.kind = "Spi")
    /\ res.kind = "Spi" =>
        /\ trace # <<>>
        /\ trace[Len(trace)][1] = "spierr"
        /\ op[Len(op)].failAt = Cardinality(TransferPositions(trace))
        /\ res.val = 0

\* init_adc1 fails at its 8th byte transfer, the read-back of the first
\* verified write: none of the later configuration writes is made
C30_Witness ==
    /\ op[1] = "init_adc1"
    /\ op[3].failAt = 8
    /\ res.kind = "Spi"
    /\ trace[Len(trace)][1] = "spierr"
    /\ Cardinality(WritePositions(trace)) = 1
    /\ Cmds(trace) = {Stop1}

----------------------------------------------------------------------------
(* The run state of the primary converter                                  *)

\* C31 (amended): once the primary converter has been started it runs until
\* it is stopped: no public operation other than stop_adc1, read_rtd or an
\* init changes the last Start1/Stop1 command transmitted from Start1, so the
\* converter is still started at every later get_channel_value call; a
\* read_rtd that returns a sample has transmitted Stop1 last and leaves the
\* converter stopped.
C31_Adc1RunsUntilStopped ==
    [][ /\ (adc1_cmd = "Start1"
            /\ op'[1] \notin {"stop_adc1", "read_rtd", "init_adc1", "init_adc2"})
                => adc1_cmd' = "Start1"
        /\ (op'[1] = "read_rtd" /\ res'.kind = "Ok") => adc1_cmd' = "Stop1" ]_vars

\* a scan of two channels returned while the converter started earlier is
\* still running
C31_Witness ==
    /\ op[1] = "get_all"
    /\ Len(op[2]) = 2
    /\ res.kind = "Ok"
    /\ adc1_cmd = "Start1"

\* C31 as stated: read_rtd too leaves the primary converter started.
C31_AsStated ==
    [][ (adc1_cmd = "Start1" /\ op'[1] \notin {"stop_adc1", "init_adc1", "init_adc2"})
            => adc1_cmd' = "Start1" ]_vars

----------------------------------------------------------------------------
(* The in-frame status poll                                                *)

\* the first k polls of a frame read: one read-data command and one status
\* byte each, after chip-select was asserted
Polled(tr, cmd, sts, k) ==
    /\ Len(tr) >= 2 * k + 1
    /\ tr[1] = <<"cs", 0>>
    /\ \A i \in 1 .. k : tr[2 * i] = <<"tx", cmd>> /\ tr[2 * i + 1] = <<"rx", sts[i]>>

\* the poll at which the device first answers ready
FirstReady(sts, k) == CHOOSE i \in 1 .. Len(sts) : Bit(sts[i], k) /\ \A j \in 1 .. i - 1 : ~Bit(sts[j], k)

\* the frame read of the call, its read-data command and its ready bit
IsFrameRead == op[1] \in {"read_adc1_data", "read_adc2_data"}
FrameCmd == IF op[1] = "read_adc1_data" THEN RData1 ELSE RData2
FrameBit == IF op[1] = "read_adc1_data" THEN 6 ELSE 7

\* C32: the in-frame status poll has no iteration cap.  With no transport
\* failure, the frame read returns exactly when some status byte has the
\* ready bit set (bit 6 primary, bit 7 auxiliary), after one read-data command
\* and one status byte per poll up to the first ready one; when no status
\* byte is ever ready the read never returns, chip-select stays asserted and
\* every poll was one read-data command and one status byte.  A transport
\* failure makes it return: while the device is not ready the poll goes on
\* until the transfer that fails, however late that is.
C32_StatusPollUnbounded ==
    /\ [](IsFrameRead =>
            LET env == op[2]
            IN /\ res.kind \in {"Ok", "Spi", "Hang"}
               /\ res.kind = "Spi" <=> env.failAt # 0
               /\ res.kind = "Hang" <=> (env.failAt = 0 /\ ~ReadyIn(env.sts, FrameBit))
               /\ res.kind = "Ok" <=> (env.failAt = 0 /\ ReadyIn(env.sts, FrameBit))
               /\ res.kind = "Ok" =>
                    /\ Polled(trace, FrameCmd, env.sts, FirstReady(env.sts, FrameBit))
                    /\ Len(trace) = 2 * FirstReady(env.sts, FrameBit) + 7
                    /\ cs = 1
               /\ (res.kind = "Spi" /\ ~ReadyIn(env.sts, FrameBit)) =>
                    /\ Len(trace) = env.failAt + 1
                    /\ trace[Len(trace)][1] = "spierr"
                    /\ \A i \in 2 .. Len(trace) - 1 :
                         IF i % 2 = 0 THEN trace[i] = <<"tx", FrameCmd>>
                         ELSE trace[i][1] = "rx" /\ ~Bit(trace[i][2], FrameBit)
               /\ res.kind = "Hang" =>
                    /\ Polled(trace, FrameCmd, env.sts, Len(env.sts))
                    /\ Len(trace) = 2 * Len(env.sts) + 1
                    /\ cs = 0)
    /\ [][res.kind # "Hang"]_vars

\* the auxiliary frame read polls three times and the device never sets bit 7
C32_Witness ==
    /\ op = <<"read_adc2_data", [EnvOk EXCEPT !.sts = <<0, 64, 64>>]>>
    /\ res.kind = "Hang"
    /\ cs = 0
    /\ Len(trace) = 7
    /\ trace[6] = <<"tx", 20>>

----------------------------------------------------------------------------
(* The registers of the two configuration paths                            *)

\* the registers a call has written
WrittenRegs(tr) == {w[1] : w \in Writes(tr)}

\* the bytes a call has written to one register
WrittenTo(tr, reg) == {w[2] : w \in {x \in Writes(tr) : x[1] = reg}}

\* C33 (amended): primary configuration writes exactly MODE2, REFMUX, MODE0
\* and MODE1, auxiliary configuration writes exactly ADC2CFG and MODE0.  The
\* two sets share the conversion-delay register MODE0 and nothing else: each
\* configuration writes the delay it is given to MODE0, and writes none of
\* the other registers of the other path.
C33_ConfigShareMode0 ==
    /\ op[1] = "config_adc1" =>
        /\ WrittenRegs(trace) \subseteq {Mode2, RefMux, Mode0, Mode1}
        /\ res.kind = "Ok" =>
            /\ WrittenRegs(trace) = {Mode2, RefMux, Mode0, Mode1}
            /\ WrittenTo(trace, Mode0) = {op[4]}
    /\ op[1] = "config_adc2" =>
        /\ WrittenRegs(trace) \subseteq {Adc2Cfg, Mode0}
        /\ res.kind = "Ok" =>
            /\ WrittenRegs(trace) = {Adc2Cfg, Mode0}
            /\ WrittenTo(trace, Mode0) = {op[4]}
            /\ WrittenRegs(trace) \cap {Mode2, RefMux, Mode0, Mode1} = {Mode0}

\* auxiliary configuration with a delay other than the one the inits use
C33_Witness ==
    /\ op[1] = "config_adc2"
    /\ op[4] = 11
    /\ res.kind = "Ok"
    /\ <<Mode0, 11>> \in Writes(trace)

\* C33 as stated: auxiliary configuration writes none of the registers that
\* primary configuration writes, and primary configuration none of the
\* auxiliary ones.
C33_AsStated ==
    /\ op[1] = "config_adc2" =>
        WrittenRegs(trace) \cap {Mode2, RefMux, Mode0, Mode1} = {}
    /\ op[1] = "config_adc1" =>
        WrittenRegs(trace) \cap {Adc2Cfg, Mode0} = {}

----------------------------------------------------------------------------
(* The primary scan                                                        *)

\* the highest channel of an input mode, and the multiplexer byte of a channel
MaxChannelOf(mode) == IF mode = "SingleEnded" THEN 10 ELSE 4
MuxOf(mode, ch) == IF mode = "SingleEnded" THEN 16 * ch + 10 ELSE 34 * ch + 1

\* the sample carried by the k-th frame the device sends during a call
SampleOf(env, k) ==
    LET f == Cyc(env.frames, k) IN <<f[1], f[2], f[3], f[4]>>

\* C34: get_all acquires the channels in slice order, one complete
\* get_channel_value (multiplexer write, ready wait, frame read) per element.
\* On success the result has the length of the slice and its i-th value is
\* the sample read for channels[i].  At the first acquisition that fails it
\* returns that error with no partial results, and no transport operation is
\* made for the remaining channels.
C34_GetAllInOrder ==
    op[1] = "get_all" =>
        LET chs == op[2]
            env == op[3]
            n   == Len(chs)
            W   == WriteSeq(trace)
            WP  == WritePositions(trace)
            DP  == WaitPositions(trace)
            RP  == ReadDataPositions(trace, RData1)
            nW  == Cardinality(WP)
            nD  == Cardinality(DP)
            nR  == Cardinality(RP)
        IN /\ nW <= n /\ nR <= nD /\ nD <= nW /\ nW <= nR + 1
           /\ \A k \in 1 .. nW :
                /\ W[k] = <<InpMux, MuxOf(scan_mode, chs[k])>>
                /\ chs[k] <= MaxChannelOf(scan_mode)
           /\ \A k \in 1 .. nD : Nth(WP, k) < Nth(DP, k)
           /\ \A k \in 1 .. nR : Nth(DP, k) < Nth(RP, k)
           /\ \A k \in 2 .. nW : Nth(RP, k - 1) < Nth(WP, k)
           /\ res.kind = "Ok" =>
                /\ nW = n /\ nD = n /\ nR = n
                /\ res.val = [i \in 1 .. n |-> SampleOf(env, i)]
                /\ \A i \in 1 .. n :
                     \A j \in 1 .. 4 : trace[Nth(RP, i) + 2 * Len(env.sts) + j] =
                                         <<"rx", res.val[i][j]>>
           /\ res.kind # "Ok" => res.val = 0
           /\ res.kind = "InvalidChannel" =>
                /\ nW < n /\ nR = nW
                /\ chs[nW + 1] > MaxChannelOf(scan_mode)
                /\ res.e1 = chs[nW + 1] /\ res.e2 = MaxChannelOf(scan_mode)
                /\ trace # <<>> => trace[Len(trace)] = <<"cs", 1>>
           /\ res.kind = "Timeout" =>
                /\ nD = nW /\ nR = nW - 1
                /\ trace[Len(trace)] = <<"drdy", TIMEOUT_ITERATIONS>>
           /\ res.kind = "Spi" => trace[Len(trace)][1] = "spierr"
           /\ res.kind \in {"Ok", "InvalidChannel", "Timeout", "Spi", "Hang"}

\* channels 5 then 0 in single-ended mode, the device sending two different
\* frames: the first value is the sample of channel 5
C34_Witness ==
    /\ op[1] = "get_all"
    /\ op[2] = <<5, 0>>
    /\ scan_mode = "SingleEnded"
    /\ op[3].frames = << <<1, 2, 3, 85, 161>>, <<18, 52, 86, 120, 175>> >>
    /\ res.kind = "Ok"
    /\ res.val = << <<1, 2, 3, 85>>, <<18, 52, 86, 120>> >>
    /\ WriteSeq(trace) = << <<6, 90>>, <<6, 10>> >>

====
